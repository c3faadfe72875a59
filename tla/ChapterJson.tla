------------------------------ MODULE ChapterJson -----------------------------
(***************************************************************************)
(* ChapterFile::to_json and from_json: the chapter file as text, read by   *)
(* every version of the reader's program, whole or cut.                    *)
(***************************************************************************)
EXTENDS Characters

NoChapterFile == <<>>    \* nullopt

\* A text is a sequence of characters; a field's name is one of them.
Fields == {"salt", "iv", "ciphertext", "wrappedKeys"}

\* What stands for itself after a backslash, and what stands for another character; tab,
\* return, backspace and form feed are like the newline.
Escapes == [quote |-> Quote, backslash |-> Backslash, slash |-> "slash", n |-> "newline"]

\* escape_json_string; tab and return are like the newline.
EscapeCharacter(c) ==
    CASE c \in {Quote, Backslash} -> <<Backslash, c>>
      [] c = "newline" -> <<Backslash, "n">>
      [] c = "control" -> <<Backslash, "u", "x", "x", "x", "x">>
      [] OTHER -> <<c>>

Escape(text) == FlattenSeq([i \in DOMAIN text |-> EscapeCharacter(text[i])])

JsonString(text) == <<Quote>> \o Escape(text) \o <<Quote>>

\* A member "key":"value"; members are separated by commas.
Member(key, value) == JsonString(key) \o <<"colon">> \o value

Joined(members) ==
    FlattenSeq([i \in DOMAIN members |->
                    IF i = 1 THEN members[i] ELSE <<"comma">> \o members[i]])

\* to_json; the wrapped keys come in the order of the map, whatever that is.
ToJson(file) ==
    LET names == SetToSeq(DOMAIN file["wrappedKeys"])
        wrapped == [i \in DOMAIN names |->
                        Member(names[i], JsonString(file["wrappedKeys"][names[i]]))] IN
    <<"{">> \o
    Joined(<<Member(<<"salt">>, JsonString(file["salt"])),
             Member(<<"iv">>, JsonString(file["iv"])),
             Member(<<"ciphertext">>, JsonString(file["ciphertext"])),
             Member(<<"wrappedKeys">>, <<"{">> \o Joined(wrapped) \o <<"}">>)>>) \o
    <<"}">>

-------------------------------------------------------------------------------
(* Parsing, a character at a time.  Where the parser stands:               *)
(*   "start"     before the opening brace of the file,                     *)
(*   "first"     behind an opening brace,                                  *)
(*   "member"    behind a comma,                                           *)
(*   "key"       in the string of a key,                                   *)
(*   "colon"     behind a key,                                             *)
(*   "value"     behind the colon,                                         *)
(*   "string"    in the string of a value,                                 *)
(*   "next"      behind a value,                                           *)
(*   "end"       behind the closing brace of the file,                     *)
(*   "malformed" behind what it does not take.                             *)

Begin == [where |-> "start", nested |-> FALSE, escaped |-> FALSE, digits |-> 0,
          string |-> <<>>, key |-> <<>>, object |-> <<>>, map |-> <<>>]

Malformed(state) == [state EXCEPT !.where = "malformed"]

\* A later member of the same key overwrites an earlier one.
Set(members, key, value) ==
    [k \in DOMAIN members \cup {key} |-> IF k = key THEN value ELSE members[k]]

\* The closing quote.
EndString(state) ==
    CASE state.where = "key" -> [state EXCEPT !.where = "colon", !.key = state.string]
      [] state.where = "string" /\ state.nested ->
            [state EXCEPT !.where = "next", !.map = Set(@, state.key, state.string)]
      [] OTHER ->
            [state EXCEPT !.where = "next", !.object = Set(@, state.key, state.string)]

\* parse_json_string.  The four digits of \u are skipped, and the character they stand for
\* with them.
StringCharacter(state, c) ==
    CASE state.digits > 0 -> [state EXCEPT !.digits = @ - 1]
      [] state.digits = 0 /\ state.escaped ->
            IF c = "u" THEN [state EXCEPT !.escaped = FALSE, !.digits = 4]
            ELSE IF c \in DOMAIN Escapes
            THEN [state EXCEPT !.escaped = FALSE, !.string = Append(@, Escapes[c])]
            ELSE Malformed(state)
      [] OTHER ->
            IF c = Backslash THEN [state EXCEPT !.escaped = TRUE]
            ELSE IF c = Quote THEN EndString(state)
            ELSE [state EXCEPT !.string = Append(@, c)]

\* The closing brace, of parse_string_map or of the file.
EndObject(state) ==
    IF state.nested
    THEN [state EXCEPT !.where = "next", !.nested = FALSE,
                       !.object = Set(@, <<"wrappedKeys">>, state.map)]
    ELSE [state EXCEPT !.where = "end"]

BeginString(state, where) == [state EXCEPT !.where = where, !.string = <<>>]

\* In the file, not in the map of the wrapped keys, "wrappedKeys" has an object.
MapExpected(state) == ~state.nested /\ state.key = <<"wrappedKeys">>

\* What stands between the strings, in parse_string_map and in from_json.
Punctuation(state, c) ==
    CASE c = "blank" -> state
      [] state.where = "start" /\ c = "{" -> [state EXCEPT !.where = "first"]
      [] state.where = "first" /\ c = "}" -> EndObject(state)
      [] state.where \in {"first", "member"} /\ c = Quote -> BeginString(state, "key")
      [] state.where = "colon" /\ c = "colon" -> [state EXCEPT !.where = "value"]
      [] state.where = "value" /\ MapExpected(state) /\ c = "{" ->
            [state EXCEPT !.where = "first", !.nested = TRUE, !.map = <<>>]
      [] state.where = "value" /\ ~MapExpected(state) /\ c = Quote ->
            BeginString(state, "string")
      [] state.where = "next" /\ c = "comma" -> [state EXCEPT !.where = "member"]
      [] state.where = "next" /\ c = "}" -> EndObject(state)
      [] OTHER -> Malformed(state)

ParseCharacter(state, c) ==
    CASE state.where \in {"end", "malformed"} -> state
      [] state.where \in {"key", "string"} -> StringCharacter(state, c)
      [] OTHER -> Punctuation(state, c)

Parsed(text) ==
    LET state[n \in 0..Len(text)] ==
            IF n = 0 THEN Begin ELSE ParseCharacter(state[n - 1], text[n]) IN
    state[Len(text)]

\* Variant for mutation: the end of the text is the end of the object.
FromJsonToTheEnd(text) ==
    LET end == Parsed(text) IN
    IF end.where \in {"next", "end"} /\ {<<f>> : f \in Fields} \subseteq DOMAIN end.object
    THEN [f \in Fields |-> end.object[<<f>>]]
    ELSE NoChapterFile

\* from_json: all four fields, or nothing; what follows the object is not looked at.
FromJson(text) ==
    LET end == Parsed(text) IN
    IF end.where = "end" /\ {<<f>> : f \in Fields} \subseteq DOMAIN end.object
    THEN [f \in Fields |-> end.object[<<f>>]]
    ELSE NoChapterFile
===============================================================================
