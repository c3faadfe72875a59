-------------------------------- MODULE Formats --------------------------------
(***************************************************************************)
(* Every text of a bounded length goes through the conversions of the two  *)
(* programs: what one of them writes has to be what the other one reads,   *)
(* and what an answer that breaks off leaves of it must not be taken for   *)
(* the whole.                                                              *)
(***************************************************************************)
EXTENDS ChapterNumbers, Base64, CommandLine, Prompts, ChapterJson, GitHubJson

CONSTANTS
    Alphabets,      \* the characters of each format
    MaxLength       \* the length of the longest text of each format

\* An unsigned char.
ASSUME BytesAssumption == "bytes" \in DOMAIN Alphabets => Alphabets["bytes"] \subseteq 0..255

\* A file's content is base64, and a size is a number.
ASSUME AnswersAssumption ==
    /\ "content" \in DOMAIN Alphabets =>
           Alphabets["content"] \cap {"quote", "backslash"} = {}
    /\ "size" \in DOMAIN Alphabets =>
           Alphabets["size"] \cap {"quote", "comma", "}", "blank"} = {}

VARIABLES
    format,
    text

vars == <<format, text>>

Init == format \in DOMAIN Alphabets /\ text = <<>>

Next ==
    /\ Len(text) < MaxLength[format]
    /\ \E c \in Alphabets[format] : text' = Append(text, c)
    /\ UNCHANGED format

Spec == Init /\ [][Next]_vars

Without(s, c) == FlattenSeq([i \in DOMAIN s |-> IF s[i] = c THEN <<>> ELSE <<s[i]>>])

Cuts(s) == {SubSeq(s, 1, n) : n \in 0 .. Len(s) - 1}

-------------------------------------------------------------------------------
(* What is typed, and the numbers of chapters. *)

\* A list is taken exactly if every part between its commas is a number in range and none of
\* them is there twice, and then as these very numbers: none is dropped, joined with its
\* neighbour or wrapped around the largest int, and no good list is refused; a Novice gets a
\* single number (parse_chapter_list, prompt_for_chapters).
ChapterListIsWhatWasTyped ==
    format = "chapters" =>
        LET parsed == ParseChapterList(text)
            commas == {i \in DOMAIN text : text[i] = "comma"}
            Number(i, j) == ValueOf(SubSeq(text, i + 1, j - 1))
            pairs == {ab \in (commas \cup {0}) \X (commas \cup {Len(text) + 1}) :
                        ab[1] < ab[2] /\ commas \cap (ab[1] + 1 .. ab[2] - 1) = {}}
            typed == {Number(ab[1], ab[2]) : ab \in pairs} IN
        /\ (parsed.error = "none") <=>
            /\ Range(text) \subseteq DOMAIN Digits \cup {"comma"}
            /\ \A ab \in pairs : ab[1] + 1 < ab[2]
            /\ typed \subseteq 0..IntMax
            /\ Cardinality(typed) = Cardinality(commas) + 1
        /\ parsed.error = "none" =>
            /\ parsed.chapters = typed
            /\ Accepts(text, TRUE) <=> commas = {}

\* The reader's program gets a chapter's number from a file's name exactly if the name is
\* made of a number, and the names the writer makes give their numbers back: no stray file
\* of the folder becomes a chapter (ChapterFetcher and ChapterFile).
FileNamesAreChapters ==
    format = "file_name" =>
        LET n == ParseFileName(text) IN
        /\ (n # None) <=>
            /\ Len(text) > 2 /\ text[1] = "prefix" /\ text[Len(text)] = "suffix"
            /\ \A i \in 2 .. Len(text) - 1 : text[i] \in DOMAIN Digits
            /\ ValueOf(SubSeq(text, 2, Len(text) - 1)) <= IntMax
        /\ (n # None /\ Len(text) = 4) => FileName(n) = text

\* Numbers of chapters are read exactly, where the writer types them and where the reader's
\* program meets them as names of files: none is lost, joined, wrapped around or made up.
NumbersAreExact == ChapterListIsWhatWasTyped /\ FileNamesAreChapters

\* A password typed with corrections is the one that the eye sees: the longest text of which
\* every backspace has taken the last character (prompt_masked).
PasswordIsWhatWasMeant ==
    format = "keys" =>
        LET line == IF "enter" \in Range(text)
                    THEN SubSeq(text, 1, SelectInSeq(text, LAMBDA k : k = "enter") - 1)
                    ELSE text
            Balance(i, j) == Cardinality({k \in i..j : line[k] # "backspace"}) -
                             Cardinality({k \in i..j : line[k] = "backspace"})
            kept == {i \in DOMAIN line : /\ line[i] # "backspace"
                                         /\ \A j \in i .. Len(line) : Balance(i, j) > 0} IN
        /\ Len(PromptMasked(text)) = Cardinality(kept)
        /\ \A i \in kept : PromptMasked(text)[Cardinality({j \in kept : j <= i})] = line[i]

-------------------------------------------------------------------------------
(* What one program writes and another one reads. *)

\* Keys, wrapped keys and ciphertexts survive base64, also with line ends among the
\* characters, and what is cut gives only the beginning of the bytes.
Base64RoundTrip ==
    format = "bytes" =>
        LET encoded == Encode(text) IN
        /\ Decode(encoded) = text
        /\ Len(encoded) % 4 = 0
        /\ \A i \in 0 .. Len(encoded) :
            /\ Decode(SubSeq(encoded, 1, i) \o <<Other>> \o
                        SubSeq(encoded, i + 1, Len(encoded))) = text
            /\ IsPrefix(Decode(SubSeq(encoded, 1, i)), text)

\* Git gets the arguments it was given, each as one, whatever quotes, backslashes and spaces
\* a path, a name or an address has; a letter that is not ASCII arrives as another one, but
\* takes no other letter with it (quote_argument and build_command_line).
ArgumentsArrive ==
    format = "arguments" =>
        LET args == Tokens(text, "separator") IN
        Argv(BuildCommandLine(<<"git">>, args)) =
            <<<<"git">>>> \o [i \in DOMAIN args |-> ToWide(args[i])]

\* A chapter file with these readers' names in it, and a text of its own for every name.
ChapterFileOf(names) ==
    [salt |-> text, iv |-> <<"a">>, ciphertext |-> text,
     wrappedKeys |-> [name \in names |-> <<"k">> \o name]]

\* The chapter file that is read is the one that was written, whatever the names of the
\* readers have in them; only a control character is lost, from a name as from a text, as the
\* reader of the file skips what the writer of the file escapes (ChapterFile).
ChapterFileRoundTrip ==
    format = "chapter_file" =>
        LET names == Range(Tokens(text, "bar"))
            Clean(s) == Without(s, "control")
            file == FromJson(ToJson(ChapterFileOf(names))) IN
        /\ file # NoChapterFile
        /\ file["salt"] = Clean(text) /\ file["iv"] = <<"a">>
        /\ file["ciphertext"] = Clean(text)
        /\ DOMAIN file["wrappedKeys"] = {Clean(name) : name \in names}
        /\ \A name \in DOMAIN file["wrappedKeys"] :
               file["wrappedKeys"][name] = <<"k">> \o name

\* A chapter file that broke off is no chapter file: no half of a ciphertext and no part of
\* the wrapped keys is used (ChapterFile::from_json).
CutChapterFileIsNone ==
    format = "chapter_file" =>
        LET json == ToJson(ChapterFileOf(Range(Tokens(text, "bar")))) IN
        \A part \in Cuts(json) : FromJson(part) = NoChapterFile

\* What a reader decrypts is the chapter file that the writer made, or nothing.
ChapterFileIsWholeOrNothing == ChapterFileRoundTrip /\ CutChapterFileIsNone

-------------------------------------------------------------------------------
(* What GitHub answers. *)

\* The items of a folder: each character "file" or "dir" ends one.
Items ==
    LET ends == {i \in DOMAIN text : text[i] \in {"file", "dir"}}
        Start(i) == Max({j \in ends : j < i} \cup {0}) + 1 IN
    FlattenSeq([i \in DOMAIN text |->
                    IF i \in ends
                    THEN <<[name |-> SubSeq(text, Start(i), i - 1),
                            is_directory |-> text[i] = "dir"]>>
                    ELSE <<>>])

\* The listing of a folder has each item with its own type, in the order of the answer; of an
\* answer that broke off it has the first ones.  A name with a quote in it is cut there, and a
\* backslash is left at its end: it is taken for no other name that the folder may have, and
\* for no chapter (parse_contents_directory_entries).
ListingIsTheFolder ==
    format = "listing" /\ (\A i \in DOMAIN Items : Items[i].name # <<>>) =>
        LET body == Listing(Items)
            Names(entries) == [i \in DOMAIN entries |-> entries[i].name]
            Shown(name) ==
                LET quote == SelectInSeq(name, LAMBDA c : c = Quote) IN
                IF quote = 0 THEN name ELSE Append(SubSeq(name, 1, quote - 1), Backslash)
            shown == [i \in DOMAIN Items |-> [Items[i] EXCEPT !.name = Shown(@)]] IN
        /\ Contents(body).entries = shown
        /\ \A part \in Cuts(body) :
            /\ IsPrefix(Names(Contents(part).entries), Names(shown))
            /\ Contents(part).content = <<>>

\* A file of the repository arrives whole or not at all, with the line ends of its base64
\* removed and no letter of it lost (extract_json_field, strip_base64_newline_escapes).
ContentIsWholeOrNothing ==
    format = "content" =>
        LET body == FileAnswer(Tokens(text, "line"))
            whole == Without(text, "line") IN
        /\ Contents(body).content = whole
        /\ \A part \in Cuts(body) : Contents(part).content \in {<<>>, whole}

\* A repository with nothing in it is never taken for one with commits, whatever is left of
\* the answer; one with commits is recognised from the whole answer (get_repo).
EmptyRepoIsEmpty ==
    format = "size" /\ text # <<>> /\ (text[1] = "0" => Len(text) = 1) =>
        LET body == RepoAnswer(text) IN
        /\ HasCommits(body) <=> text # <<"0">>
        /\ \A part \in Cuts(body) : HasCommits(part) => text # <<"0">>

\* Whatever is left of an answer that broke off: no part of a file counts as the file, and
\* no empty repository as one with commits.
AnswersAreWholeOrNothing == ContentIsWholeOrNothing /\ EmptyRepoIsEmpty
===============================================================================
