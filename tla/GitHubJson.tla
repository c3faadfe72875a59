------------------------------ MODULE GitHubJson ------------------------------
(***************************************************************************)
(* What HttpGitHubClient takes from the body of GitHub's answer, which may *)
(* have broken off anywhere: fields found by their names, without a parser *)
(* for JSON.                                                               *)
(***************************************************************************)
EXTENDS Characters

\* A body is a sequence of characters; a field's name is one of them.

\* Where `"field":` begins.
Positions(body, field) ==
    {i \in DOMAIN body : IsPrefix(<<Quote, field, Quote, "colon">>, SubSeq(body, i, Len(body)))}

\* The first position from `start` on with one of these characters, or just behind the end.
Find(body, start, characters) ==
    Min({i \in start..Len(body) : body[i] \in characters} \cup {Len(body) + 1})

SkipBlanks(body, start) ==
    Min({i \in start..Len(body) : body[i] # "blank"} \cup {Len(body) + 1})

\* Variant for mutation: a string that does not end is taken as far as it goes.
ExtractJsonFieldOpen(body, field) ==
    LET value == SkipBlanks(body, Min(Positions(body, field)) + 4)
        end == Find(body, value + 1, {Quote}) IN
    IF Positions(body, field) = {} THEN <<>>
    ELSE IF value > Len(body) THEN <<>>
    ELSE IF body[value] = Quote THEN SubSeq(body, value + 1, end - 1)
    ELSE SubSeq(body, value, Find(body, value, {"comma", "}"}) - 1)

\* extract_json_field: a string up to its closing quote, or a bare number up to the comma,
\* the brace or the end.
ExtractJsonField(body, field) ==
    LET value == SkipBlanks(body, Min(Positions(body, field)) + 4)
        end == Find(body, value + 1, {Quote}) IN
    IF Positions(body, field) = {} THEN <<>>
    ELSE IF value > Len(body) THEN <<>>
    ELSE IF body[value] = Quote
    THEN IF end > Len(body) THEN <<>> ELSE SubSeq(body, value + 1, end - 1)
    ELSE SubSeq(body, value, Find(body, value, {"comma", "}"}) - 1)

\* looks_like_json_array.
LooksLikeJsonArray(body) ==
    LET first == SkipBlanks(body, 1) IN first <= Len(body) /\ body[first] = "["

\* strip_base64_newline_escapes: a backslash and the n behind it.
StripNewlineEscapes(text) ==
    LET Dropped(i) ==
            \/ text[i] = Backslash /\ i < Len(text) /\ text[i + 1] = "n"
            \/ text[i] = "n" /\ i > 1 /\ text[i - 1] = Backslash IN
    FlattenSeq([i \in DOMAIN text |-> IF Dropped(i) THEN <<>> ELSE <<text[i]>>])

\* From one "name" to the next one, or to the end.
Element(body, start) ==
    SubSeq(body, start,
           Min({i \in Positions(body, "name") : i > start} \cup {Len(body) + 1}) - 1)

\* Variant for mutation: the type is looked for in all of the body.
EntryFirstType(body, start) ==
    LET name == ExtractJsonField(Element(body, start), "name")
        type == ExtractJsonField(body, "type") IN
    IF name = <<>> THEN <<>> ELSE <<[name |-> name, is_directory |-> type = <<"dir">>]>>

\* One round of the loop: an entry, or none if it has no name.
Entry(body, start) ==
    LET name == ExtractJsonField(Element(body, start), "name")
        type == ExtractJsonField(Element(body, start), "type") IN
    IF name = <<>> THEN <<>> ELSE <<[name |-> name, is_directory |-> type = <<"dir">>]>>

\* parse_contents_directory_entries: the elements in the order of their positions.
DirectoryEntries(body) ==
    LET starts == Positions(body, "name") IN
    FlattenSeq([i \in DOMAIN body |-> IF i \in starts THEN Entry(body, i) ELSE <<>>])

\* What get_contents gets out of the body of a success: a listing, or a file, in base64.
Contents(body) ==
    IF LooksLikeJsonArray(body) THEN [entries |-> DirectoryEntries(body), content |-> <<>>]
    ELSE [entries |-> <<>>,
          content |-> StripNewlineEscapes(ExtractJsonField(body, "content"))]

\* get_repo: a size is there and is not 0.
HasCommits(body) == ExtractJsonField(body, "size") \notin {<<>>, <<"0">>}

-------------------------------------------------------------------------------
(* GitHub's answers. *)

Field(name, value) == <<Quote, name, Quote, "colon">> \o value

StringField(name, value) == Field(name, <<Quote>> \o value \o <<Quote>>)

Escaped(name) ==
    FlattenSeq([i \in DOMAIN name |->
                    IF name[i] = Quote THEN <<Backslash, Quote>> ELSE <<name[i]>>])

\* The listing of a folder; each item has a name and is a file or a folder.
Listing(items) ==
    LET Item(i) == <<"{">> \o StringField("name", Escaped(items[i].name)) \o <<"comma">> \o
                   Field("size", <<"0">>) \o <<"comma">> \o
                   StringField("type", <<IF items[i].is_directory THEN "dir" ELSE "file">>) \o
                   <<"}">> IN
    <<"[">> \o
    FlattenSeq([i \in DOMAIN items |-> IF i = 1 THEN Item(i) ELSE <<"comma">> \o Item(i)]) \o
    <<"]">>

\* A file, its base64 in lines with an escaped newline behind each.
FileAnswer(lines) ==
    <<"{">> \o StringField("name", <<"x">>) \o <<"comma">> \o
    StringField("content",
        FlattenSeq([i \in DOMAIN lines |-> lines[i] \o <<Backslash, "n">>])) \o
    <<"}">>

RepoAnswer(size) ==
    <<"{">> \o StringField("default_branch", <<"x">>) \o <<"comma">> \o
    Field("size", <<"blank">> \o size) \o <<"}">>
===============================================================================
