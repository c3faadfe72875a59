--------------------------- MODULE ChapterFileProofs --------------------------
(***************************************************************************)
(* ChapterFileIsWholeOrNothing, for texts of every length and any number   *)
(* of readers with names of any length: what to_json writes is followed    *)
(* through the parser of from_json, piece by piece.                        *)
(***************************************************************************)
EXTENDS FormatsProofs

Parsing == INSTANCE Folding WITH Step <- ParseCharacter

\* Folding's hypothesis.
LEMMA ParsingInduction == Parsing!Induction
  BY SetInduction DEF Parsing!Induction

-------------------------------------------------------------------------------
(* The parser, one character after the other. *)

\* Values that the provers need not look into.
StartAt == "start"
FirstAt == "first"
MemberAt == "member"
KeyAt == "key"
ColonAt == "colon"
ValueAt == "value"
StringAt == "string"
NextAt == "next"
EndAt == "end"
No == FALSE
Yes == TRUE
Wrapped == <<"wrappedKeys">>

\* A state of the parser.
St(w, n, e, d, s, k, o, m) ==
    [where |-> w, nested |-> n, escaped |-> e, digits |-> d, string |-> s, key |-> k,
     object |-> o, map |-> m]

\* What the parser does with a character of a string.
OfString(state, c) ==
    /\ state.digits > 0 => ParseCharacter(state, c) = [state EXCEPT !.digits = state.digits - 1]
    /\ state.digits = 0 /\ state.escaped = No =>
           /\ c \notin {Quote, Backslash} =>
                  ParseCharacter(state, c) = [state EXCEPT !.string = Append(state.string, c)]
           /\ ParseCharacter(state, Backslash) = [state EXCEPT !.escaped = Yes]
           /\ ParseCharacter(state, Quote) = EndString(state)
    /\ state.digits = 0 /\ state.escaped = Yes =>
           /\ ParseCharacter(state, "u") = [state EXCEPT !.escaped = No, !.digits = 4]
           /\ c \in DOMAIN Escapes /\ c # "u" =>
                  ParseCharacter(state, c) =
                      [state EXCEPT !.escaped = No, !.string = Append(state.string, Escapes[c])]

\* In a string it is parse_json_string's turn.
LEMMA InString ==
    ASSUME NEW state, state.where \in {KeyAt, StringAt}, NEW c
    PROVE  OfString(state, c)
  <1>1. \A x : ParseCharacter(state, x) = StringCharacter(state, x)
    <2>1. state.where \notin {"end", "malformed"} /\ state.where \in {"key", "string"}
      BY Zenon DEF KeyAt, StringAt
    <2> QED
      BY <2>1, Zenon DEF ParseCharacter
  <1>2. ~(0 > 0)
    OBVIOUS
  <1>3. state.digits > 0 => StringCharacter(state, c) = [state EXCEPT !.digits = state.digits - 1]
    <2>1. state.digits > 0 => state.digits # 0
      BY <1>2, Zenon
    <2> QED
      BY <2>1, Zenon DEF StringCharacter
  <1>4. state.digits = 0 /\ state.escaped = No =>
            /\ c \notin {Quote, Backslash} =>
                   StringCharacter(state, c) = [state EXCEPT !.string = Append(state.string, c)]
            /\ StringCharacter(state, Backslash) = [state EXCEPT !.escaped = Yes]
            /\ StringCharacter(state, Quote) = EndString(state)
    BY <1>2, CharactersDiffer, Zenon DEF StringCharacter, No, Yes
  <1>5. state.digits = 0 /\ state.escaped = Yes =>
            /\ StringCharacter(state, "u") = [state EXCEPT !.escaped = No, !.digits = 4]
            /\ c \in DOMAIN Escapes /\ c # "u" =>
                   StringCharacter(state, c) =
                       [state EXCEPT !.escaped = No, !.string = Append(state.string, Escapes[c])]
    BY <1>2, Zenon DEF StringCharacter, No, Yes
  <1> QED
    BY <1>1, <1>3, <1>4, <1>5, Zenon DEF OfString

\* What it does between the strings.
OutsideStrings(state, c) ==
    /\ state.where = StartAt =>
           ParseCharacter(state, "{") = [state EXCEPT !.where = FirstAt]
    /\ state.where \in {FirstAt, MemberAt} =>
           ParseCharacter(state, Quote) = [state EXCEPT !.where = KeyAt, !.string = <<>>]
    /\ state.where = ColonAt =>
           ParseCharacter(state, "colon") = [state EXCEPT !.where = ValueAt]
    /\ state.where = ValueAt /\ MapExpected(state) =>
           ParseCharacter(state, "{") =
               [state EXCEPT !.where = FirstAt, !.nested = Yes, !.map = <<>>]
    /\ state.where = ValueAt /\ ~MapExpected(state) =>
           ParseCharacter(state, Quote) = [state EXCEPT !.where = StringAt, !.string = <<>>]
    /\ state.where = NextAt =>
           ParseCharacter(state, "comma") = [state EXCEPT !.where = MemberAt]
    /\ state.where \in {FirstAt, NextAt} => ParseCharacter(state, "}") = EndObject(state)
    /\ state.where = EndAt => ParseCharacter(state, c) = state

\* OutsideStrings the strings it is the turn of from_json and parse_string_map.
LEMMA BetweenStrings ==
    ASSUME NEW state, NEW c
    PROVE  OutsideStrings(state, c)
  <1>1. /\ Quote # "blank" /\ Quote # "{" /\ Quote # "}" /\ Quote # "colon" /\ Quote # "comma"
    BY Zenon DEF Quote
  <1>2. state.where \in {StartAt, FirstAt, MemberAt, ColonAt, ValueAt, NextAt} =>
            \A x : ParseCharacter(state, x) = Punctuation(state, x)
    <2>1. /\ state.where \in {StartAt, FirstAt, MemberAt, ColonAt, ValueAt, NextAt} =>
                 state.where \notin {"end", "malformed", "key", "string"}
      BY Zenon DEF StartAt, FirstAt, MemberAt, ColonAt, ValueAt, NextAt
    <2> QED
      BY <2>1, Zenon DEF ParseCharacter
  <1>3. state.where = StartAt =>
            Punctuation(state, "{") = [state EXCEPT !.where = FirstAt]
    BY Zenon DEF Punctuation, StartAt, FirstAt
  <1>4. state.where \in {FirstAt, MemberAt} =>
            Punctuation(state, Quote) = [state EXCEPT !.where = KeyAt, !.string = <<>>]
    BY <1>1, Zenon DEF Punctuation, BeginString, FirstAt, MemberAt, KeyAt
  <1>5. state.where = ColonAt =>
            Punctuation(state, "colon") = [state EXCEPT !.where = ValueAt]
    BY <1>1, Zenon DEF Punctuation, ColonAt, ValueAt
  <1>6. state.where = ValueAt /\ MapExpected(state) =>
            Punctuation(state, "{") =
                [state EXCEPT !.where = FirstAt, !.nested = Yes, !.map = <<>>]
    BY <1>1, Zenon DEF Punctuation, FirstAt, ValueAt, Yes
  <1>7. state.where = ValueAt /\ ~MapExpected(state) =>
            Punctuation(state, Quote) = [state EXCEPT !.where = StringAt, !.string = <<>>]
    BY <1>1, Zenon DEF Punctuation, BeginString, StringAt, ValueAt
  <1>8. state.where = NextAt =>
            Punctuation(state, "comma") = [state EXCEPT !.where = MemberAt]
    BY <1>1, Zenon DEF Punctuation, NextAt, MemberAt
  <1>9. state.where \in {FirstAt, NextAt} => Punctuation(state, "}") = EndObject(state)
    BY <1>1, Zenon DEF Punctuation, NextAt, FirstAt
  <1>10. state.where = EndAt => ParseCharacter(state, c) = state
    BY Zenon DEF ParseCharacter, EndAt
  <1> QED
    BY <1>2, <1>3, <1>4, <1>5, <1>6, <1>7, <1>8, <1>9, <1>10, Zenon DEF OutsideStrings

\* In a string: a character that stands for itself, a backslash, what it escapes, digits.
LEMMA PlainRead ==
    ASSUME NEW w \in {KeyAt, StringAt}, NEW n, NEW s, NEW k, NEW o, NEW m, NEW c,
           c \notin {Quote, Backslash}
    PROVE  ParseCharacter(St(w, n, No, 0, s, k, o, m), c) =
               St(w, n, No, 0, Append(s, c), k, o, m)
  <1> DEFINE st == St(w, n, No, 0, s, k, o, m)
             x == Append(s, c)
  <1>1. st.where = w /\ st.digits = 0 /\ st.escaped = No /\ st.string = s
    BY DEF St
  <1>2. [st EXCEPT !.string = x] = St(w, n, No, 0, x, k, o, m)
    <2> HIDE DEF x
    <2> QED
      BY DEF St
  <1>3. st.where \in {KeyAt, StringAt}
    BY <1>1, Zenon
  <1>4. ParseCharacter(st, c) = [st EXCEPT !.string = Append(st.string, c)]
    <2> HIDE DEF st
    <2>1. OfString(st, c)
      BY <1>3, InString
    <2> QED
      BY <1>1, <2>1, Zenon DEF OfString
  <1> QED
    BY <1>1, <1>2, <1>4, Zenon

\* A backslash: the next character is escaped.
LEMMA BackslashRead ==
    ASSUME NEW w \in {KeyAt, StringAt}, NEW n, NEW s, NEW k, NEW o, NEW m
    PROVE  ParseCharacter(St(w, n, No, 0, s, k, o, m), Backslash) =
               St(w, n, Yes, 0, s, k, o, m)
  <1> DEFINE st == St(w, n, No, 0, s, k, o, m)
  <1>1. st.where = w /\ st.digits = 0 /\ st.escaped = No
    BY DEF St
  <1>2. [st EXCEPT !.escaped = Yes] = St(w, n, Yes, 0, s, k, o, m)
    BY DEF St
  <1>3. st.where \in {KeyAt, StringAt}
    BY <1>1, Zenon
  <1>4. ParseCharacter(st, Backslash) = [st EXCEPT !.escaped = Yes]
    <2> HIDE DEF st
    <2>1. OfString(st, Backslash)
      BY <1>3, InString
    <2> QED
      BY <1>1, <2>1, Zenon DEF OfString
  <1> QED
    BY <1>2, <1>4, Zenon

\* The character behind a backslash.
LEMMA EscapedRead ==
    ASSUME NEW w \in {KeyAt, StringAt}, NEW n, NEW s, NEW k, NEW o, NEW m, NEW c,
           c \in DOMAIN Escapes, c # "u"
    PROVE  ParseCharacter(St(w, n, Yes, 0, s, k, o, m), c) =
               St(w, n, No, 0, Append(s, Escapes[c]), k, o, m)
  <1> DEFINE st == St(w, n, Yes, 0, s, k, o, m)
             x == Append(s, Escapes[c])
  <1>1. st.where = w /\ st.digits = 0 /\ st.escaped = Yes /\ st.string = s
    BY DEF St
  <1>2. [st EXCEPT !.escaped = No, !.string = x] = St(w, n, No, 0, x, k, o, m)
    <2>1. [st EXCEPT !.escaped = No, !.string = x] =
              [[st EXCEPT !.escaped = No] EXCEPT !.string = x]
      OBVIOUS
    <2> HIDE DEF x
    <2>2. [st EXCEPT !.escaped = No] = St(w, n, No, 0, s, k, o, m)
      BY DEF St
    <2>3. [St(w, n, No, 0, s, k, o, m) EXCEPT !.string = x] = St(w, n, No, 0, x, k, o, m)
      BY DEF St
    <2> QED
      BY <2>1, <2>2, <2>3, Zenon
  <1>3. st.where \in {KeyAt, StringAt}
    BY <1>1, Zenon
  <1>4. ParseCharacter(st, c) =
            [st EXCEPT !.escaped = No, !.string = Append(st.string, Escapes[c])]
    <2> HIDE DEF st
    <2>1. OfString(st, c)
      BY <1>3, InString
    <2> QED
      BY <1>1, <2>1, Zenon DEF OfString
  <1> QED
    BY <1>1, <1>2, <1>4, Zenon

\* A u behind a backslash: four digits come.
LEMMA DigitsBegin ==
    ASSUME NEW w \in {KeyAt, StringAt}, NEW n, NEW s, NEW k, NEW o, NEW m
    PROVE  ParseCharacter(St(w, n, Yes, 0, s, k, o, m), "u") = St(w, n, No, 4, s, k, o, m)
  <1> DEFINE st == St(w, n, Yes, 0, s, k, o, m)
  <1>1. st.where = w /\ st.digits = 0 /\ st.escaped = Yes
    BY DEF St
  <1>2. [st EXCEPT !.escaped = No, !.digits = 4] = St(w, n, No, 4, s, k, o, m)
    <2>1. [st EXCEPT !.escaped = No, !.digits = 4] =
              [[st EXCEPT !.escaped = No] EXCEPT !.digits = 4]
      OBVIOUS
    <2>2. [st EXCEPT !.escaped = No] = St(w, n, No, 0, s, k, o, m)
      BY DEF St
    <2>3. [St(w, n, No, 0, s, k, o, m) EXCEPT !.digits = 4] = St(w, n, No, 4, s, k, o, m)
      BY DEF St
    <2> QED
      BY <2>1, <2>2, <2>3, Zenon
  <1>3. st.where \in {KeyAt, StringAt}
    BY <1>1, Zenon
  <1>4. ParseCharacter(st, "u") = [st EXCEPT !.escaped = No, !.digits = 4]
    <2> HIDE DEF st
    <2>1. OfString(st, "u")
      BY <1>3, InString
    <2> QED
      BY <1>1, <2>1, Zenon DEF OfString
  <1> QED
    BY <1>2, <1>4, Zenon

\* One of the four digits is skipped.
LEMMA DigitRead ==
    ASSUME NEW w \in {KeyAt, StringAt}, NEW n, NEW s, NEW k, NEW o, NEW m, NEW c, NEW d \in 1..4
    PROVE  ParseCharacter(St(w, n, No, d, s, k, o, m), c) = St(w, n, No, d - 1, s, k, o, m)
  <1> DEFINE st == St(w, n, No, d, s, k, o, m)
             x == d - 1
  <1>1. st.where = w /\ st.digits = d
    BY DEF St
  <1>2. [st EXCEPT !.digits = x] = St(w, n, No, x, s, k, o, m)
    <2> HIDE DEF x
    <2> QED
      BY DEF St
  <1>3. st.where \in {KeyAt, StringAt} /\ st.digits > 0
    <2>1. d > 0
      OBVIOUS
    <2> QED
      BY <1>1, <2>1, Zenon
  <1>4. ParseCharacter(st, c) = [st EXCEPT !.digits = st.digits - 1]
    <2> HIDE DEF st
    <2>1. OfString(st, c)
      BY <1>3, InString
    <2> QED
      BY <1>3, <2>1, Zenon DEF OfString
  <1> QED
    BY <1>1, <1>2, <1>4, Zenon

\* The closing quote of a key and of a value.
LEMMA KeyEnds ==
    ASSUME NEW n, NEW s, NEW k, NEW o, NEW m
    PROVE  ParseCharacter(St(KeyAt, n, No, 0, s, k, o, m), Quote) =
               St(ColonAt, n, No, 0, s, s, o, m)
  <1> DEFINE st == St(KeyAt, n, No, 0, s, k, o, m)
  <1>1. st.where = KeyAt /\ st.digits = 0 /\ st.escaped = No /\ st.string = s
    BY DEF St
  <1>2. [st EXCEPT !.where = ColonAt, !.key = s] = St(ColonAt, n, No, 0, s, s, o, m)
    <2>1. [st EXCEPT !.where = ColonAt, !.key = s] =
              [[st EXCEPT !.where = ColonAt] EXCEPT !.key = s]
      OBVIOUS
    <2>2. [st EXCEPT !.where = ColonAt] = St(ColonAt, n, No, 0, s, k, o, m)
      BY DEF St
    <2>3. [St(ColonAt, n, No, 0, s, k, o, m) EXCEPT !.key = s] =
              St(ColonAt, n, No, 0, s, s, o, m)
      BY DEF St
    <2> QED
      BY <2>1, <2>2, <2>3, Zenon
  <1>3. st.where \in {KeyAt, StringAt}
    BY <1>1, Zenon
  <1>4. ParseCharacter(st, Quote) = EndString(st)
    <2> HIDE DEF st
    <2>1. OfString(st, Quote)
      BY <1>3, InString
    <2> QED
      BY <1>1, <2>1, Zenon DEF OfString
  <1>5. EndString(st) = [st EXCEPT !.where = ColonAt, !.key = st.string]
    BY <1>1, Zenon DEF EndString, KeyAt, ColonAt, StringAt, Yes, No
  <1> QED
    BY <1>1, <1>2, <1>4, <1>5, Zenon

\* The closing quote of a value puts it into the map, or into the file's object.
LEMMA ValueEnds ==
    ASSUME NEW s, NEW k, NEW o, NEW m
    PROVE  /\ ParseCharacter(St(StringAt, Yes, No, 0, s, k, o, m), Quote) =
                  St(NextAt, Yes, No, 0, s, k, o, Set(m, k, s))
           /\ ParseCharacter(St(StringAt, No, No, 0, s, k, o, m), Quote) =
                  St(NextAt, No, No, 0, s, k, Set(o, k, s), m)
  <1> DEFINE st(n) == St(StringAt, n, No, 0, s, k, o, m)
             x == Set(m, k, s)
             y == Set(o, k, s)
  <1>1. \A n : /\ st(n).where = StringAt /\ st(n).digits = 0 /\ st(n).escaped = No
               /\ st(n).string = s /\ st(n).key = k /\ st(n).object = o /\ st(n).map = m
               /\ st(n).nested = n
    BY DEF St
  <1>2. [st(Yes) EXCEPT !.where = NextAt, !.map = x] = St(NextAt, Yes, No, 0, s, k, o, x)
    <2>1. [st(Yes) EXCEPT !.where = NextAt, !.map = x] =
              [[st(Yes) EXCEPT !.where = NextAt] EXCEPT !.map = x]
      OBVIOUS
    <2> HIDE DEF x
    <2>2. [st(Yes) EXCEPT !.where = NextAt] = St(NextAt, Yes, No, 0, s, k, o, m)
      BY DEF St
    <2>3. [St(NextAt, Yes, No, 0, s, k, o, m) EXCEPT !.map = x] =
              St(NextAt, Yes, No, 0, s, k, o, x)
      BY DEF St
    <2> QED
      BY <2>1, <2>2, <2>3, Zenon
  <1>3. [st(No) EXCEPT !.where = NextAt, !.object = y] = St(NextAt, No, No, 0, s, k, y, m)
    <2>1. [st(No) EXCEPT !.where = NextAt, !.object = y] =
              [[st(No) EXCEPT !.where = NextAt] EXCEPT !.object = y]
      OBVIOUS
    <2> HIDE DEF y
    <2>2. [st(No) EXCEPT !.where = NextAt] = St(NextAt, No, No, 0, s, k, o, m)
      BY DEF St
    <2>3. [St(NextAt, No, No, 0, s, k, o, m) EXCEPT !.object = y] =
              St(NextAt, No, No, 0, s, k, y, m)
      BY DEF St
    <2> QED
      BY <2>1, <2>2, <2>3, Zenon
  <1>4. \A n : st(n).where \in {KeyAt, StringAt}
    BY <1>1, Zenon
  <1>5. \A n : ParseCharacter(st(n), Quote) = EndString(st(n))
    <2> SUFFICES ASSUME NEW n PROVE ParseCharacter(st(n), Quote) = EndString(st(n))
      OBVIOUS
    <2>1. st(n).where \in {KeyAt, StringAt} /\ st(n).digits = 0 /\ st(n).escaped = No
      BY <1>1, <1>4, Zenon
    <2> HIDE DEF st
    <2>2. OfString(st(n), Quote)
      BY <2>1, InString
    <2> QED
      BY <2>1, <2>2, Zenon DEF OfString
  <1>6. EndString(st(Yes)) =
            [st(Yes) EXCEPT !.where = NextAt, !.map = Set(st(Yes).map, st(Yes).key, st(Yes).string)]
    BY <1>1, Zenon DEF EndString, StringAt, NextAt, Yes, No
  <1>7. EndString(st(No)) =
            [st(No) EXCEPT !.where = NextAt,
                           !.object = Set(st(No).object, st(No).key, st(No).string)]
    BY <1>1, Zenon DEF EndString, StringAt, NextAt, Yes, No
  <1>8. ParseCharacter(st(Yes), Quote) = St(NextAt, Yes, No, 0, s, k, o, x)
    BY <1>1, <1>2, <1>5, <1>6, Zenon
  <1>9. ParseCharacter(st(No), Quote) = St(NextAt, No, No, 0, s, k, y, m)
    BY <1>1, <1>3, <1>5, <1>7, Zenon
  <1> QED
    BY <1>8, <1>9, Zenon

\* A state in which nothing is escaped.
At(w, n, s, k, o, m) == St(w, n, No, 0, s, k, o, m)

\* A state of which some fields change.
Moved(w, n, s, k, o, m, x, y, z) ==
    LET st == At(w, n, s, k, o, m) IN
    /\ [st EXCEPT !.where = x, !.string = y] = At(x, n, y, k, o, m)
    /\ [st EXCEPT !.where = x, !.nested = y, !.object = z] = At(x, y, s, k, z, m)
    /\ [st EXCEPT !.where = x, !.nested = y, !.map = z] = At(x, y, s, k, o, z)

\* Each change of fields gives the state that has the new values.
LEMMA Moves ==
    ASSUME NEW w, NEW n, NEW s, NEW k, NEW o, NEW m, NEW x, NEW y, NEW z
    PROVE  Moved(w, n, s, k, o, m, x, y, z)
  <1> DEFINE st == At(w, n, s, k, o, m)
  <1>1. /\ [st EXCEPT !.where = x, !.string = y] = [[st EXCEPT !.where = x] EXCEPT !.string = y]
        /\ [st EXCEPT !.where = x, !.nested = y, !.object = z] =
               [[[st EXCEPT !.where = x] EXCEPT !.nested = y] EXCEPT !.object = z]
        /\ [st EXCEPT !.where = x, !.nested = y, !.map = z] =
               [[[st EXCEPT !.where = x] EXCEPT !.nested = y] EXCEPT !.map = z]
    OBVIOUS
  <1>2. [st EXCEPT !.where = x] = At(x, n, s, k, o, m)
    BY DEF At, St
  <1>3. [At(x, n, s, k, o, m) EXCEPT !.string = y] = At(x, n, y, k, o, m)
    BY DEF At, St
  <1>4. [At(x, n, s, k, o, m) EXCEPT !.nested = y] = At(x, y, s, k, o, m)
    BY DEF At, St
  <1>5. [At(x, y, s, k, o, m) EXCEPT !.object = z] = At(x, y, s, k, z, m)
    BY DEF At, St
  <1>6. [At(x, y, s, k, o, m) EXCEPT !.map = z] = At(x, y, s, k, o, z)
    BY DEF At, St
  <1> QED
    BY <1>1, <1>2, <1>3, <1>4, <1>5, <1>6, Zenon DEF Moved

\* The signs between the strings.
SignsRead(n, s, k, o, m) ==
    /\ ParseCharacter(At(StartAt, n, s, k, o, m), "{") = At(FirstAt, n, s, k, o, m)
    /\ ParseCharacter(At(FirstAt, n, s, k, o, m), Quote) = At(KeyAt, n, <<>>, k, o, m)
    /\ ParseCharacter(At(MemberAt, n, s, k, o, m), Quote) = At(KeyAt, n, <<>>, k, o, m)
    /\ ParseCharacter(At(ColonAt, n, s, k, o, m), "colon") = At(ValueAt, n, s, k, o, m)
    /\ ParseCharacter(At(NextAt, n, s, k, o, m), "comma") = At(MemberAt, n, s, k, o, m)
    /\ ParseCharacter(At(NextAt, No, s, k, o, m), "}") = At(EndAt, No, s, k, o, m)

\* SignsRead are read so, whatever was read before.
LEMMA SignRead ==
    ASSUME NEW n, NEW s, NEW k, NEW o, NEW m
    PROVE  SignsRead(n, s, k, o, m)
  <1>1. ParseCharacter(At(StartAt, n, s, k, o, m), "{") = At(FirstAt, n, s, k, o, m)
    <2> DEFINE st == At(StartAt, n, s, k, o, m)
    <2>1. st.where = StartAt
      BY DEF At, St
    <2>2. [st EXCEPT !.where = FirstAt] = At(FirstAt, n, s, k, o, m)
      BY DEF At, St
    <2>3. OutsideStrings(st, "{")
      BY BetweenStrings
    <2> QED
      BY <2>1, <2>2, <2>3, Zenon DEF OutsideStrings
  <1>2. ParseCharacter(At(FirstAt, n, s, k, o, m), Quote) = At(KeyAt, n, <<>>, k, o, m)
    <2> DEFINE st == At(FirstAt, n, s, k, o, m)
    <2>1. st.where = FirstAt
      BY DEF At, St
    <2>2. [st EXCEPT !.where = KeyAt, !.string = <<>>] = At(KeyAt, n, <<>>, k, o, m)
      <3>1. Moved(FirstAt, n, s, k, o, m, KeyAt, <<>>, <<>>)
        BY Moves
      <3> QED
        BY <3>1, Zenon DEF Moved
    <2>3. OutsideStrings(st, Quote)
      BY BetweenStrings
    <2> QED
      BY <2>1, <2>2, <2>3, Zenon DEF OutsideStrings
  <1>3. ParseCharacter(At(MemberAt, n, s, k, o, m), Quote) = At(KeyAt, n, <<>>, k, o, m)
    <2> DEFINE st == At(MemberAt, n, s, k, o, m)
    <2>1. st.where = MemberAt
      BY DEF At, St
    <2>2. [st EXCEPT !.where = KeyAt, !.string = <<>>] = At(KeyAt, n, <<>>, k, o, m)
      <3>1. Moved(MemberAt, n, s, k, o, m, KeyAt, <<>>, <<>>)
        BY Moves
      <3> QED
        BY <3>1, Zenon DEF Moved
    <2>3. OutsideStrings(st, Quote)
      BY BetweenStrings
    <2> QED
      BY <2>1, <2>2, <2>3, Zenon DEF OutsideStrings
  <1>4. ParseCharacter(At(ColonAt, n, s, k, o, m), "colon") = At(ValueAt, n, s, k, o, m)
    <2> DEFINE st == At(ColonAt, n, s, k, o, m)
    <2>1. st.where = ColonAt
      BY DEF At, St
    <2>2. [st EXCEPT !.where = ValueAt] = At(ValueAt, n, s, k, o, m)
      BY DEF At, St
    <2>3. OutsideStrings(st, "colon")
      BY BetweenStrings
    <2> QED
      BY <2>1, <2>2, <2>3, Zenon DEF OutsideStrings
  <1>5. ParseCharacter(At(NextAt, n, s, k, o, m), "comma") = At(MemberAt, n, s, k, o, m)
    <2> DEFINE st == At(NextAt, n, s, k, o, m)
    <2>1. st.where = NextAt
      BY DEF At, St
    <2>2. [st EXCEPT !.where = MemberAt] = At(MemberAt, n, s, k, o, m)
      BY DEF At, St
    <2>3. OutsideStrings(st, "comma")
      BY BetweenStrings
    <2> QED
      BY <2>1, <2>2, <2>3, Zenon DEF OutsideStrings
  <1>6. ParseCharacter(At(NextAt, No, s, k, o, m), "}") = At(EndAt, No, s, k, o, m)
    <2> DEFINE st == At(NextAt, No, s, k, o, m)
    <2>1. st.where = NextAt /\ st.nested = No
      BY DEF At, St
    <2>2. [st EXCEPT !.where = EndAt] = At(EndAt, No, s, k, o, m)
      BY DEF At, St
    <2>3. OutsideStrings(st, "}")
      BY BetweenStrings
    <2>4. EndObject(st) = [st EXCEPT !.where = EndAt]
      BY <2>1, Zenon DEF EndObject, No, EndAt
    <2> QED
      BY <2>1, <2>2, <2>3, <2>4, Zenon DEF OutsideStrings
  <1> QED
    BY <1>1, <1>2, <1>3, <1>4, <1>5, <1>6, Zenon DEF SignsRead

\* Where the map of the wrapped keys begins and ends, and where a string begins.
ValuesBegin(s, k, o, m) ==
    /\ ParseCharacter(At(ValueAt, No, s, Wrapped, o, m), "{") =
           At(FirstAt, Yes, s, Wrapped, o, <<>>)
    /\ ParseCharacter(At(ValueAt, Yes, s, k, o, m), Quote) =
           At(StringAt, Yes, <<>>, k, o, m)
    /\ k # Wrapped => ParseCharacter(At(ValueAt, No, s, k, o, m), Quote) =
                          At(StringAt, No, <<>>, k, o, m)

\* A value begins so, whatever was read before.
LEMMA ValueBegins ==
    ASSUME NEW s, NEW k, NEW o, NEW m
    PROVE  ValuesBegin(s, k, o, m)
  <1>1. ParseCharacter(At(ValueAt, No, s, Wrapped, o, m), "{") =
            At(FirstAt, Yes, s, Wrapped, o, <<>>)
    <2> DEFINE st == At(ValueAt, No, s, Wrapped, o, m)
    <2>1. st.where = ValueAt /\ st.nested = No /\ st.key = Wrapped
      BY DEF At, St
    <2>2. [st EXCEPT !.where = FirstAt, !.nested = Yes, !.map = <<>>] =
              At(FirstAt, Yes, s, Wrapped, o, <<>>)
      <3>1. Moved(ValueAt, No, s, Wrapped, o, m, FirstAt, Yes, <<>>)
        BY Moves
      <3> QED
        BY <3>1, Zenon DEF Moved
    <2>3. OutsideStrings(st, "{")
      BY BetweenStrings
    <2>4. MapExpected(st)
      BY <2>1, Zenon DEF MapExpected, No, Wrapped
    <2> QED
      BY <2>1, <2>2, <2>3, <2>4, Zenon DEF OutsideStrings
  <1>3. ParseCharacter(At(ValueAt, Yes, s, k, o, m), Quote) = At(StringAt, Yes, <<>>, k, o, m)
    <2> DEFINE st == At(ValueAt, Yes, s, k, o, m)
    <2>1. st.where = ValueAt /\ st.nested = Yes /\ st.key = k
      BY DEF At, St
    <2>2. [st EXCEPT !.where = StringAt, !.string = <<>>] = At(StringAt, Yes, <<>>, k, o, m)
      <3>1. Moved(ValueAt, Yes, s, k, o, m, StringAt, <<>>, <<>>)
        BY Moves
      <3> QED
        BY <3>1, Zenon DEF Moved
    <2>3. OutsideStrings(st, Quote)
      BY BetweenStrings
    <2>4. ~MapExpected(st)
      BY <2>1, Zenon DEF MapExpected, Yes, Wrapped
    <2> QED
      BY <2>1, <2>2, <2>3, <2>4, Zenon DEF OutsideStrings
  <1>4. ASSUME k # Wrapped
        PROVE  ParseCharacter(At(ValueAt, No, s, k, o, m), Quote) = At(StringAt, No, <<>>, k, o, m)
    <2> DEFINE st == At(ValueAt, No, s, k, o, m)
    <2>1. st.where = ValueAt /\ st.nested = No /\ st.key = k
      BY DEF At, St
    <2>2. [st EXCEPT !.where = StringAt, !.string = <<>>] = At(StringAt, No, <<>>, k, o, m)
      <3>1. Moved(ValueAt, No, s, k, o, m, StringAt, <<>>, <<>>)
        BY Moves
      <3> QED
        BY <3>1, Zenon DEF Moved
    <2>3. OutsideStrings(st, Quote)
      BY BetweenStrings
    <2>4. ~MapExpected(st)
      BY <1>4, <2>1, Zenon DEF MapExpected, Yes, Wrapped
    <2> QED
      BY <2>1, <2>2, <2>3, <2>4, Zenon DEF OutsideStrings
  <1> QED
    BY <1>1, <1>3, <1>4, Zenon DEF ValuesBegin

\* The closing brace of the map.
MapEnding(w, s, k, o, m) ==
    ParseCharacter(At(w, Yes, s, k, o, m), "}") = At(NextAt, No, s, k, Set(o, Wrapped, m), m)

\* The map ends so, with members and without.
LEMMA MapEnds ==
    ASSUME NEW w \in {FirstAt, NextAt}, NEW s, NEW k, NEW o, NEW m
    PROVE  MapEnding(w, s, k, o, m)
  <1> DEFINE st == At(w, Yes, s, k, o, m)
  <1>1. st.where = w /\ st.nested = Yes /\ st.object = o /\ st.map = m
    BY DEF At, St
  <1>2. [st EXCEPT !.where = NextAt, !.nested = No, !.object = Set(o, Wrapped, m)] =
            At(NextAt, No, s, k, Set(o, Wrapped, m), m)
    <2>1. Moved(w, Yes, s, k, o, m, NextAt, No, Set(o, Wrapped, m))
      BY Moves
    <2> QED
      BY <2>1, Zenon DEF Moved
  <1>3. OutsideStrings(st, "}")
    BY BetweenStrings
  <1>4. EndObject(st) =
            [st EXCEPT !.where = NextAt, !.nested = No, !.object = Set(st.object, Wrapped, st.map)]
    BY <1>1, Zenon DEF EndObject, No, Yes, NextAt, Wrapped
  <1> QED
    BY <1>1, <1>2, <1>3, <1>4, Zenon DEF OutsideStrings, MapEnding

\* Behind the closing brace of the file.
LEMMA EndStays ==
    ASSUME NEW state, state.where = EndAt, NEW c
    PROVE  ParseCharacter(state, c) = state
  <1>1. OutsideStrings(state, c)
    BY BetweenStrings
  <1> QED
    BY <1>1, Zenon DEF OutsideStrings

-------------------------------------------------------------------------------
(* Texts and strings. *)

\* One character.
LEMMA ParseOne ==
    ASSUME NEW c, NEW base
    PROVE  Parsing!Fold(base, <<c>>) = ParseCharacter(base, c)
  BY ParsingInduction, Parsing!FoldOne

\* What stands behind another text is parsed from where the parser stands then.
LEMMA ParseConcat ==
    ASSUME NEW V, NEW s \in Seq(V), NEW t \in Seq(V), NEW base
    PROVE  Parsing!Fold(base, s \o t) = Parsing!Fold(Parsing!Fold(base, s), t)
  BY ParsingInduction, Parsing!FoldConcat

\* One character more.
LEMMA ParseOneMore ==
    ASSUME NEW V, NEW s \in Seq(V), NEW c \in V, NEW base
    PROVE  Parsing!Fold(base, Append(s, c)) = ParseCharacter(Parsing!Fold(base, s), c)
  BY ParsingInduction, Parsing!FoldAppend

\* Two characters.
LEMMA ParseTwo ==
    ASSUME NEW a, NEW b, NEW base
    PROVE  Parsing!Fold(base, <<a, b>>) = ParseCharacter(ParseCharacter(base, a), b)
  <1> DEFINE s == <<a>>
             t == <<b>>
             V == {a, b}
  <1>1. s \in Seq(V) /\ t \in Seq(V) /\ a \in V /\ b \in V
    OBVIOUS
  <1>2. s \o t = <<a, b>>
    <2> HIDE DEF V
    <2> QED
      BY <1>1, PairOfSingles
  <1>3. Parsing!Fold(base, s \o t) = Parsing!Fold(Parsing!Fold(base, s), t)
    <2> HIDE DEF s, t, V
    <2> QED
      BY <1>1, ParseConcat
  <1> QED
    BY <1>2, <1>3, ParseOne, Zenon

\* The characters of a chapter file.
JsonSigns == {Quote, Backslash, "n", "u", "x", "{", "}", "colon", "comma", "a", "k",
              "salt", "iv", "ciphertext", "wrappedKeys"}

\* What a character is escaped as has the characters of a chapter file.
LEMMA EscapeType ==
    ASSUME NEW W, JsonSigns \subseteq W, NEW c \in W
    PROVE  EscapeCharacter(c) \in Seq(W)
  <1>1. Backslash \in W /\ "n" \in W /\ "u" \in W /\ "x" \in W
    BY Zenon DEF JsonSigns
  <1>2. \/ EscapeCharacter(c) = <<Backslash, c>> \/ EscapeCharacter(c) = <<Backslash, "n">>
        \/ EscapeCharacter(c) = <<Backslash, "u", "x", "x", "x", "x">>
        \/ EscapeCharacter(c) = <<c>>
    BY Zenon DEF EscapeCharacter, Quote, Backslash
  <1>3. /\ <<Backslash, c>> \in Seq(W) /\ <<Backslash, "n">> \in Seq(W) /\ <<c>> \in Seq(W)
        /\ <<Backslash, "u", "x", "x", "x", "x">> \in Seq(W)
    BY <1>1
  <1> QED
    BY <1>2, <1>3, Zenon

\* A character that is escaped is read as itself, but for a control character.
LEMMA CharacterRead ==
    ASSUME NEW w \in {KeyAt, StringAt}, NEW n, NEW s, NEW k, NEW o, NEW m, NEW c
    PROVE  Parsing!Fold(At(w, n, s, k, o, m), EscapeCharacter(c)) =
               IF c = "control" THEN At(w, n, s, k, o, m)
               ELSE At(w, n, Append(s, c), k, o, m)
  <1> DEFINE st == At(w, n, s, k, o, m)
             escaped == St(w, n, Yes, 0, s, k, o, m)
  <1>0. ParseCharacter(st, Backslash) = escaped
    BY BackslashRead DEF At
  <1>1. \A x, y : Parsing!Fold(st, <<x, y>>) = ParseCharacter(ParseCharacter(st, x), y)
    BY ParseTwo
  <1>2. \A x : x \in DOMAIN Escapes /\ x # "u" =>
            ParseCharacter(escaped, x) = At(w, n, Append(s, Escapes[x]), k, o, m)
    BY EscapedRead DEF At
  <1>3. CASE c \in {Quote, Backslash}
    <2>1. EscapeCharacter(c) = <<Backslash, c>> /\ c # "control"
      BY <1>3, Zenon DEF EscapeCharacter, Quote, Backslash
    <2>2. c \in DOMAIN Escapes /\ c # "u" /\ Escapes[c] = c
      BY <1>3 DEF Escapes, Quote, Backslash
    <2>3. Parsing!Fold(st, <<Backslash, c>>) = At(w, n, Append(s, c), k, o, m)
      <3> HIDE DEF st, escaped
      <3> QED
        BY <1>0, <1>1, <1>2, <2>2, Zenon
    <2> QED
      BY <2>1, <2>3, Zenon
  <1>4. CASE c = "newline"
    <2>1. EscapeCharacter(c) = <<Backslash, "n">> /\ c # "control"
      BY <1>4, Zenon DEF EscapeCharacter, Quote, Backslash
    <2>2. "n" \in DOMAIN Escapes /\ "n" # "u" /\ Escapes["n"] = c
      BY <1>4 DEF Escapes
    <2>3. Parsing!Fold(st, <<Backslash, "n">>) = At(w, n, Append(s, c), k, o, m)
      <3> HIDE DEF st, escaped
      <3> QED
        BY <1>0, <1>1, <1>2, <2>2, Zenon
    <2> QED
      BY <2>1, <2>3, Zenon
  <1>5. CASE c = "control"
    <2> DEFINE d(i) == St(w, n, No, i, s, k, o, m)
               half == <<"x", "x">>
               digits == <<"x", "x", "x", "x">>
               start == <<Backslash, "u">>
               V == {Backslash, "u", "x"}
    <2>1. EscapeCharacter(c) = <<Backslash, "u", "x", "x", "x", "x">>
      BY <1>5, Zenon DEF EscapeCharacter, Quote, Backslash
    <2>2. start \in Seq(V) /\ half \in Seq(V) /\ digits \in Seq(V)
      OBVIOUS
    <2>3. /\ <<Backslash, "u", "x", "x", "x", "x">> = start \o digits
          /\ digits = half \o half
      OBVIOUS
    <2>4. Parsing!Fold(st, start) = d(4)
      <3>1. ParseCharacter(escaped, "u") = d(4)
        BY DigitsBegin
      <3> HIDE DEF st, escaped, d
      <3> QED
        BY <1>0, <1>1, <3>1, Zenon
    <2>5. /\ ParseCharacter(d(4), "x") = d(3) /\ ParseCharacter(d(3), "x") = d(2)
          /\ ParseCharacter(d(2), "x") = d(1) /\ ParseCharacter(d(1), "x") = d(0)
      <3>1. \A i \in 1..4 : ParseCharacter(d(i), "x") = d(i - 1)
        BY DigitRead
      <3>2. 4 - 1 = 3 /\ 3 - 1 = 2 /\ 2 - 1 = 1 /\ 1 - 1 = 0
        OBVIOUS
      <3>3. 1 \in 1..4 /\ 2 \in 1..4 /\ 3 \in 1..4 /\ 4 \in 1..4
        OBVIOUS
      <3> HIDE DEF d
      <3> QED
        BY <3>1, <3>2, <3>3, Zenon
    <2>6. d(0) = st
      BY DEF At
    <2>7. /\ Parsing!Fold(d(4), half) = d(2)
          /\ Parsing!Fold(d(2), half) = d(0)
      <3> HIDE DEF d
      <3> QED
        BY <2>5, ParseTwo
    <2>8. Parsing!Fold(d(4), digits) = d(0)
      <3> HIDE DEF d, half, digits, V
      <3> QED
        BY <2>2, <2>3, <2>7, ParseConcat
    <2>9. Parsing!Fold(st, start \o digits) = d(0)
      <3> HIDE DEF st, d, start, digits, V
      <3> QED
        BY <2>2, <2>4, <2>8, ParseConcat
    <2> QED
      BY <1>5, <2>1, <2>3, <2>6, <2>9, Zenon
  <1>6. CASE c \notin {Quote, Backslash, "newline", "control"}
    <2>1. EscapeCharacter(c) = <<c>> /\ c \notin {Quote, Backslash} /\ c # "control"
      BY <1>6, Zenon DEF EscapeCharacter
    <2>2. ParseCharacter(st, c) = At(w, n, Append(s, c), k, o, m)
      BY <2>1, PlainRead DEF At
    <2> QED
      BY <2>1, <2>2, ParseOne, Zenon
  <1> QED
    BY <1>3, <1>4, <1>5, <1>6, Zenon

\* escape_json_string as a function of the character.
EscapesOf(W) == [c \in W |-> EscapeCharacter(c)]

\* The escaped text is every character's escape in a row.
LEMMA EscapeIsSpread ==
    ASSUME NEW W, JsonSigns \subseteq W, NEW t \in Seq(W)
    PROVE  Escape(t) = Spread(EscapesOf(W), t) /\ \A c \in W : EscapesOf(W)[c] \in Seq(W)
  <1>1. \A i \in DOMAIN t : t[i] \in W
    BY LenProperties, ElementOfSeq
  <1>2. \A i \in DOMAIN t : EscapesOf(W)[t[i]] = EscapeCharacter(t[i])
    BY <1>1, Zenon DEF EscapesOf
  <1>3. [i \in DOMAIN t |-> EscapesOf(W)[t[i]]] = [i \in DOMAIN t |-> EscapeCharacter(t[i])]
    BY <1>2, Zenon
  <1>4. ASSUME NEW c \in W PROVE EscapesOf(W)[c] \in Seq(W)
    <2>1. EscapesOf(W)[c] = EscapeCharacter(c)
      BY Zenon DEF EscapesOf
    <2> QED
      BY <2>1, EscapeType
  <1> QED
    BY <1>3, <1>4, Zenon DEF Escape, Spread

\* One character more to escape.
LEMMA EscapeNext ==
    ASSUME NEW W, JsonSigns \subseteq W, NEW t \in Seq(W), NEW c \in W
    PROVE  /\ Escape(<<>>) = <<>>
           /\ Escape(t) \in Seq(W)
           /\ Escape(Append(t, c)) = Escape(t) \o EscapeCharacter(c)
  <1> DEFINE F == EscapesOf(W)
  <1>1. Append(t, c) \in Seq(W) /\ <<>> \in Seq(W)
    OBVIOUS
  <1>2. /\ Escape(t) = Spread(F, t) /\ Escape(Append(t, c)) = Spread(F, Append(t, c))
        /\ Escape(<<>>) = Spread(F, <<>>)
    BY <1>1, EscapeIsSpread
  <1>6. \A x \in W : F[x] \in Seq(W)
    BY EscapeIsSpread
  <1>3. F[c] = EscapeCharacter(c)
    BY Zenon DEF EscapesOf
  <1> HIDE DEF F
  <1>4. Spread(F, t) \in Seq(W) /\ Spread(F, Append(t, c)) = Spread(F, t) \o F[c]
    BY <1>6, SpreadNext, SMTT(60)
  <1>5. Spread(F, <<>>) = <<>>
    BY SpreadNothing
  <1> QED
    BY <1>2, <1>3, <1>4, <1>5, Zenon

\* What is left of a text when it is read: all but the control characters.
Cleaned(s) == Without(s, "control")

\* Of nothing, nothing is left.
LEMMA CleanedNothing == Cleaned(<<>>) = <<>>
  <1>1. 0 \in {0}
    OBVIOUS
  <1>2. \A A : FlattenSeq(Remaining(<<>>, A)) = <<>>
    BY <1>1, RemainingShort
  <1> QED
    BY <1>2, WithoutIsRemaining, Zenon DEF Cleaned

\* An escaped text is read as the text without its control characters: induction over its length.
LEMMA TextRead ==
    ASSUME NEW W, JsonSigns \subseteq W, NEW t \in Seq(W),
           NEW w \in {KeyAt, StringAt}, NEW n, NEW k, NEW o, NEW m
    PROVE  Parsing!Fold(At(w, n, <<>>, k, o, m), Escape(t)) = At(w, n, Cleaned(t), k, o, m)
  <1> DEFINE st(s) == At(w, n, s, k, o, m)
             T == {s \in Seq(W) : Parsing!Fold(st(<<>>), Escape(s)) = st(Cleaned(s))}
  <1>0. Quote \in W
    BY Zenon DEF JsonSigns
  <1>1. <<>> \in T
    <2>1. <<>> \in Seq(W)
      OBVIOUS
    <2>2. Escape(<<>>) = <<>>
      BY <1>0, <2>1, EscapeNext
    <2>3. Cleaned(<<>>) = <<>>
      BY CleanedNothing
    <2>4. Parsing!Fold(st(<<>>), <<>>) = st(<<>>)
      BY ParsingInduction, Parsing!FoldEmpty
    <2> QED
      BY <2>1, <2>2, <2>3, <2>4
  <1>2. ASSUME NEW s \in T, NEW c \in W PROVE Append(s, c) \in T
    <2>1. s \in Seq(W) /\ Parsing!Fold(st(<<>>), Escape(s)) = st(Cleaned(s))
      OBVIOUS
    <2>2. /\ Escape(s) \in Seq(W) /\ Escape(Append(s, c)) = Escape(s) \o EscapeCharacter(c)
          /\ EscapeCharacter(c) \in Seq(W)
      BY <2>1, EscapeNext, EscapeType
    <2>3. Cleaned(Append(s, c)) = IF c = "control" THEN Cleaned(s) ELSE Append(Cleaned(s), c)
      <3> DEFINE control == "control"
      <3>1. Without(Append(s, c), control) =
                IF c = control THEN Without(s, control) ELSE Append(Without(s, control), c)
        <4> HIDE DEF control
        <4> QED
          BY <2>1, WithoutNext
      <3> QED
        BY <3>1, Zenon DEF Cleaned
    <2>4. Parsing!Fold(st(Cleaned(s)), EscapeCharacter(c)) =
              IF c = "control" THEN st(Cleaned(s)) ELSE st(Append(Cleaned(s), c))
      BY CharacterRead
    <2> HIDE DEF st
    <2>5. Parsing!Fold(st(<<>>), Escape(s) \o EscapeCharacter(c)) =
              Parsing!Fold(Parsing!Fold(st(<<>>), Escape(s)), EscapeCharacter(c))
      BY <2>2, ParseConcat
    <2>6. Parsing!Fold(st(<<>>), Escape(Append(s, c))) = st(Cleaned(Append(s, c)))
      <3>1. CASE c = "control"
        BY <2>1, <2>2, <2>3, <2>4, <2>5, <3>1, Zenon
      <3>2. CASE c # "control"
        BY <2>1, <2>2, <2>3, <2>4, <2>5, <3>2, Zenon
      <3> QED
        BY <3>1, <3>2
    <2>7. Append(s, c) \in Seq(W)
      BY <2>1, AppendProperties
    <2> QED
      BY <2>6, <2>7
  <1>3. T = Seq(W)
    <2>1. T \in SUBSET Seq(W)
      OBVIOUS
    <2> HIDE DEF T
    <2> QED
      BY <1>1, <1>2, <2>1, SeqInduction
  <1> QED
    BY <1>3

\* A string, from the quote that begins it to the one that ends it.
LEMMA StringRead ==
    ASSUME NEW W, JsonSigns \subseteq W, NEW t \in Seq(W), NEW base,
           NEW w \in {KeyAt, StringAt}, NEW n, NEW k, NEW o, NEW m,
           ParseCharacter(base, Quote) = At(w, n, <<>>, k, o, m)
    PROVE  /\ JsonString(t) \in Seq(W)
           /\ Parsing!Fold(base, JsonString(t)) =
                  ParseCharacter(At(w, n, Cleaned(t), k, o, m), Quote)
  <1> DEFINE quote == <<Quote>>
             e == Escape(t)
  <1>1. Quote \in W
    BY Zenon DEF JsonSigns
  <1>2. quote \in Seq(W)
    BY <1>1
  <1>3. e \in Seq(W)
    BY <1>1, EscapeNext
  <1>4. JsonString(t) = (quote \o e) \o quote
    BY Zenon DEF JsonString
  <1>5. Parsing!Fold(base, quote) = At(w, n, <<>>, k, o, m)
    BY ParseOne
  <1>6. Parsing!Fold(At(w, n, <<>>, k, o, m), e) = At(w, n, Cleaned(t), k, o, m)
    BY TextRead
  <1>7. \A x : Parsing!Fold(x, quote) = ParseCharacter(x, Quote)
    BY ParseOne
  <1> HIDE DEF quote, e
  <1>8. quote \o e \in Seq(W) /\ (quote \o e) \o quote \in Seq(W)
    BY <1>2, <1>3, ConcatProperties
  <1>9. Parsing!Fold(base, quote \o e) = Parsing!Fold(Parsing!Fold(base, quote), e)
    BY <1>2, <1>3, ParseConcat
  <1>10. Parsing!Fold(base, (quote \o e) \o quote) =
             Parsing!Fold(Parsing!Fold(base, quote \o e), quote)
    BY <1>2, <1>8, ParseConcat
  <1> QED
    BY <1>4, <1>5, <1>6, <1>7, <1>8, <1>9, <1>10, Zenon

-------------------------------------------------------------------------------
(* Members, and the map of the wrapped keys. *)

\* A member is a text.
LEMMA MemberIsTyped ==
    ASSUME NEW W, JsonSigns \subseteq W, NEW key \in Seq(W), NEW value \in Seq(W)
    PROVE  Member(key, JsonString(value)) \in Seq(W)
  <1>1. Quote \in W /\ "colon" \in W
    BY Zenon DEF JsonSigns
  <1>2. \A t \in Seq(W) : Escape(t) \in Seq(W)
    BY <1>1, EscapeNext
  <1>3. <<Quote>> \in Seq(W) /\ <<"colon">> \in Seq(W)
    BY <1>1
  <1>4. \A t \in Seq(W) : JsonString(t) \in Seq(W)
    <2> SUFFICES ASSUME NEW t \in Seq(W) PROVE JsonString(t) \in Seq(W)
      OBVIOUS
    <2>1. Escape(t) \in Seq(W)
      BY <1>2
    <2> QED
      BY <1>3, <2>1, ConcatProperties DEF JsonString
  <1>5. JsonString(key) \in Seq(W) /\ JsonString(value) \in Seq(W)
    BY <1>4
  <1> QED
    BY <1>3, <1>5, ConcatProperties DEF Member

\* A key, with its colon.
KeyIsRead(key, v, n, s, k, o, m) ==
    Parsing!Fold(At(v, n, s, k, o, m), JsonString(key) \o <<"colon">>) =
        At(ValueAt, n, Cleaned(key), Cleaned(key), o, m)

\* A key is read so, first in its object or behind a comma.
LEMMA KeyRead ==
    ASSUME NEW W, JsonSigns \subseteq W, NEW key \in Seq(W), NEW v \in {FirstAt, MemberAt},
           NEW n, NEW s, NEW k, NEW o, NEW m
    PROVE  /\ JsonString(key) \o <<"colon">> \in Seq(W)
           /\ KeyIsRead(key, v, n, s, k, o, m)
  <1> DEFINE base == At(v, n, s, k, o, m)
             c == Cleaned(key)
             colon == <<"colon">>
             j == JsonString(key)
  <1>1. ParseCharacter(base, Quote) = At(KeyAt, n, <<>>, k, o, m)
    <2>1. SignsRead(n, s, k, o, m)
      BY SignRead
    <2> QED
      BY <2>1, Zenon DEF SignsRead
  <1>2. colon \in Seq(W)
    <2>1. "colon" \in W
      BY Zenon DEF JsonSigns
    <2> QED
      BY <2>1
  <1>3. /\ j \in Seq(W)
        /\ Parsing!Fold(base, j) = ParseCharacter(At(KeyAt, n, c, k, o, m), Quote)
    <2> HIDE DEF base
    <2> QED
      BY <1>1, StringRead
  <1>4. ParseCharacter(At(KeyAt, n, c, k, o, m), Quote) = At(ColonAt, n, c, c, o, m)
    <2> HIDE DEF c
    <2> QED
      BY KeyEnds DEF At
  <1>5. Parsing!Fold(At(ColonAt, n, c, c, o, m), colon) = At(ValueAt, n, c, c, o, m)
    <2>1. ParseCharacter(At(ColonAt, n, c, c, o, m), "colon") = At(ValueAt, n, c, c, o, m)
      <3>1. SignsRead(n, c, c, o, m)
        BY SignRead
      <3> QED
        BY <3>1, Zenon DEF SignsRead
    <2> QED
      BY <2>1, ParseOne, Zenon
  <1> HIDE DEF base, colon, j, c
  <1>6. j \o colon \in Seq(W)
    BY <1>2, <1>3, ConcatProperties
  <1>7. Parsing!Fold(base, j \o colon) = Parsing!Fold(Parsing!Fold(base, j), colon)
    BY <1>2, <1>3, ParseConcat
  <1> QED
    BY <1>3, <1>4, <1>5, <1>6, <1>7, Zenon DEF KeyIsRead, base, colon, j, c

\* A member of the map, and one of the file.
MemberIsRead(key, value, v, s, k, o, m) ==
    LET c == Cleaned(key)
        x == Cleaned(value)
        member == Member(key, JsonString(value)) IN
    /\ Parsing!Fold(At(v, Yes, s, k, o, m), member) = At(NextAt, Yes, x, c, o, Set(m, c, x))
    /\ c # Wrapped => Parsing!Fold(At(v, No, s, k, o, m), member) =
                          At(NextAt, No, x, c, Set(o, c, x), m)

\* A member is read so: its key, its colon and its string.
LEMMA MemberRead ==
    ASSUME NEW W, JsonSigns \subseteq W, NEW key \in Seq(W), NEW value \in Seq(W),
           NEW v \in {FirstAt, MemberAt}, NEW s, NEW k, NEW o, NEW m
    PROVE  MemberIsRead(key, value, v, s, k, o, m)
  <1> DEFINE c == Cleaned(key)
             x == Cleaned(value)
             j == JsonString(value)
             h == JsonString(key) \o <<"colon">>
             y == Set(m, c, x)
             z == Set(o, c, x)
  <1>1. h \in Seq(W) /\ \A n : Parsing!Fold(At(v, n, s, k, o, m), h) = At(ValueAt, n, c, c, o, m)
    <2>1. h \in Seq(W) /\ \A n : KeyIsRead(key, v, n, s, k, o, m)
      BY KeyRead
    <2> QED
      BY <2>1, Zenon DEF KeyIsRead
  <1>2. j \in Seq(W) /\ Parsing!Fold(At(ValueAt, Yes, c, c, o, m), j) =
            ParseCharacter(At(StringAt, Yes, x, c, o, m), Quote)
    <2>1. ParseCharacter(At(ValueAt, Yes, c, c, o, m), Quote) = At(StringAt, Yes, <<>>, c, o, m)
      <3>1. ValuesBegin(c, c, o, m)
        BY ValueBegins
      <3> QED
        BY <3>1, Zenon DEF ValuesBegin
    <2> HIDE DEF c
    <2> QED
      BY <2>1, StringRead
  <1>3. ASSUME c # Wrapped
        PROVE  Parsing!Fold(At(ValueAt, No, c, c, o, m), j) =
                   ParseCharacter(At(StringAt, No, x, c, o, m), Quote)
    <2>1. ParseCharacter(At(ValueAt, No, c, c, o, m), Quote) = At(StringAt, No, <<>>, c, o, m)
      <3>1. ValuesBegin(c, c, o, m)
        BY ValueBegins
      <3> QED
        BY <1>3, <3>1, Zenon DEF ValuesBegin
    <2> HIDE DEF c
    <2> QED
      BY <2>1, StringRead
  <1>4. /\ ParseCharacter(At(StringAt, Yes, x, c, o, m), Quote) = At(NextAt, Yes, x, c, o, y)
        /\ ParseCharacter(At(StringAt, No, x, c, o, m), Quote) = At(NextAt, No, x, c, z, m)
    <2> HIDE DEF c, x
    <2> QED
      BY ValueEnds DEF At
  <1>5. Member(key, j) = h \o j
    BY Zenon DEF Member
  <1> HIDE DEF c, x, j, h, y, z
  <1>7. \A base : Parsing!Fold(base, h \o j) = Parsing!Fold(Parsing!Fold(base, h), j)
    BY <1>1, <1>2, ParseConcat
  <1>8. Parsing!Fold(At(v, Yes, s, k, o, m), h \o j) = At(NextAt, Yes, x, c, o, y)
    BY <1>1, <1>2, <1>4, <1>7, Zenon
  <1>9. c # Wrapped => Parsing!Fold(At(v, No, s, k, o, m), h \o j) = At(NextAt, No, x, c, z, m)
    BY <1>1, <1>3, <1>4, <1>7, Zenon
  <1> QED
    BY <1>5, <1>8, <1>9, Zenon DEF MemberIsRead, c, x, j, h, y, z

\* One member more.
LEMMA JoinedNext ==
    ASSUME NEW W, "comma" \in W, NEW ms \in Seq(Seq(W)), NEW x \in Seq(W)
    PROVE  /\ Joined(<<>>) = <<>>
           /\ Joined(ms) \in Seq(W)
           /\ ms = <<>> => Joined(Append(ms, x)) = x
           /\ ms # <<>> => Joined(Append(ms, x)) = Joined(ms) \o (<<"comma">> \o x)
  <1> DEFINE n == Len(ms)
             comma == <<"comma">>
             more == Append(ms, x)
             h == [i \in DOMAIN ms |-> IF i = 1 THEN ms[i] ELSE comma \o ms[i]]
             g == [i \in DOMAIN more |-> IF i = 1 THEN more[i] ELSE comma \o more[i]]
  <1>1. n \in Nat /\ DOMAIN ms = 1..n
    BY LenProperties
  <1>2. /\ DOMAIN more = 1 .. n + 1 /\ more[n + 1] = x /\ \A i \in 1..n : more[i] = ms[i]
    BY <1>1, AppendProperties
  <1>3. comma \in Seq(W)
    OBVIOUS
  <1>4. \A i \in 1..n : ms[i] \in Seq(W)
    BY <1>1, ElementOfSeq
  <1> HIDE DEF n, comma, more
  <1>5. \A t \in Seq(W) : comma \o t \in Seq(W)
    BY <1>3, ConcatProperties
  <1>6. h \in [1..n -> Seq(W)]
    BY <1>1, <1>4, <1>5
  <1>7. g \in [1 .. n + 1 -> Seq(W)]
    <2>1. \A i \in 1 .. n + 1 : more[i] \in Seq(W)
      <3>1. \A i \in 1 .. n + 1 : i = n + 1 \/ i \in 1..n
        BY <1>1
      <3> QED
        BY <1>2, <1>4, <3>1, Zenon
    <2> QED
      BY <1>2, <1>5, <2>1
  <1>8. \A i \in 1..n : g[i] = h[i]
    <2>1. \A i \in 1..n : i \in 1 .. n + 1
      BY <1>1
    <2> QED
      BY <1>1, <1>2, <2>1
  <1>9. g[n + 1] = IF n = 0 THEN x ELSE comma \o x
    BY <1>1, <1>2
  <1>10. Joined(ms) = FlattenSeq(h) /\ Joined(more) = FlattenSeq(g)
    BY Zenon DEF Joined, comma
  <1> HIDE DEF h, g
  <1>11. h \in Seq(Seq(W)) /\ Len(h) = n /\ g \in Seq(Seq(W)) /\ Len(g) = n + 1
    <2>1. n + 1 \in Nat
      BY <1>1
    <2> QED
      BY <1>1, <1>6, <1>7, <2>1, FunctionSeq
  <1>12. FlattenSeq(h) \in Seq(W) /\ FlattenSeq(g) = FlattenSeq(h) \o g[n + 1]
    BY <1>1, <1>8, <1>11, FlattenNext
  <1>13. Joined(<<>>) = <<>>
    <2> DEFINE none == [i \in DOMAIN <<>> |-> IF i = 1 THEN <<>>[i] ELSE comma \o <<>>[i]]
    <2>1. Joined(<<>>) = FlattenSeq(none)
      BY Zenon DEF Joined, comma
    <2>2. none \in Seq(Seq(W)) /\ Len(none) = 0
      <3>1. none \in [1..0 -> Seq(W)]
        OBVIOUS
      <3> HIDE DEF none
      <3> QED
        BY <3>1, FunctionSeq
    <2>3. \A i \in 1..Len(none) : none[i] = <<>>
      BY <2>2
    <2> HIDE DEF none
    <2> QED
      BY <2>1, <2>2, <2>3, FlattenNothing
  <1>14. n = 0 <=> ms = <<>>
    BY EmptySeq DEF n
  <1>15. CASE ms = <<>>
    <2>1. h = <<>>
      BY <1>11, <1>14, <1>15, EmptySeq
    <2>2. FlattenSeq(h) = <<>>
      BY <1>10, <1>13, <1>15, Zenon
    <2>3. <<>> \o x = x
      BY ConcatEmptySeq
    <2> QED
      BY <1>9, <1>10, <1>12, <1>13, <1>14, <1>15, <2>2, <2>3, Zenon DEF more
  <1>16. CASE ms # <<>>
    BY <1>9, <1>10, <1>12, <1>13, <1>14, <1>16, Zenon DEF more, comma
  <1> QED
    BY <1>15, <1>16

\* The names of the readers, in some order.
LEMMA Enumerated ==
    ASSUME NEW S, IsFiniteSet(S)
    PROVE  /\ SetToSeq(S) \in Seq(S)
           /\ \A x \in S : \E i \in 1..Len(SetToSeq(S)) : SetToSeq(S)[i] = x
  <1> DEFINE n == Cardinality(S)
             s == SetToSeq(S)
  <1>1. n \in Nat /\ ExistsBijection(1..n, S)
    BY FS_CardinalityType
  <1>2. s \in [1..n -> S] /\ IsInjective(s)
    <2>1. PICK f \in [1..n -> S] : IsInjective(f)
      BY <1>1, Zenon DEF ExistsBijection, Bijection, Injection
    <2> QED
      BY <2>1, Zenon DEF SetToSeq
  <1> HIDE DEF n, s
  <1>3. s \in Seq(S) /\ Len(s) = n
    BY <1>1, <1>2, FunctionSeq
  <1>4. s \in Injection(1..n, S)
    BY <1>2, Zenon DEF Injection
  <1>5. Cardinality(1..n) = n
    <2>1. 1 \in Int /\ n \in Int
      BY <1>1
    <2>2. Cardinality(1..n) = IF 1 > n THEN 0 ELSE n - 1 + 1
      BY <2>1, FS_Interval
    <2> QED
      BY <1>1, <2>2
  <1>6. s \in Surjection(1..n, S)
    BY <1>4, <1>5, FS_Injection DEF n
  <1>7. \A x \in S : \E i \in 1..n : s[i] = x
    BY <1>6, Zenon DEF Surjection
  <1> QED
    BY <1>3, <1>7, Zenon DEF s

\* A text is cleaned part by part.
LEMMA CleanedConcat ==
    ASSUME NEW V, NEW s \in Seq(V), NEW t \in Seq(V)
    PROVE  Cleaned(s \o t) = Cleaned(s) \o Cleaned(t)
  <1> DEFINE D == {i \in DOMAIN s : s[i] = "control"}
             E == {i \in DOMAIN t : t[i] = "control"}
             u == s \o t
             F == {i \in DOMAIN u : u[i] = "control"}
  <1>1. /\ Cleaned(s) = FlattenSeq(Remaining(s, D)) /\ Cleaned(t) = FlattenSeq(Remaining(t, E))
        /\ Cleaned(s \o t) = FlattenSeq(Remaining(s \o t, F))
    BY WithoutIsRemaining, Zenon DEF Cleaned
  <1>2. /\ \A i \in 1..Len(s) : i \in F <=> i \in D
        /\ \A i \in 1..Len(t) : i + Len(s) \in F <=> i \in E
    <2> DEFINE control == "control"
    <2>1. /\ D = {i \in DOMAIN s : s[i] = control} /\ E = {i \in DOMAIN t : t[i] = control}
          /\ F = {i \in DOMAIN u : u[i] = control}
      OBVIOUS
    <2>2. /\ Len(s) \in Nat /\ Len(t) \in Nat /\ DOMAIN s = 1..Len(s) /\ DOMAIN t = 1..Len(t)
          /\ DOMAIN u = 1 .. Len(s) + Len(t)
          /\ \A i \in 1..Len(s) : u[i] = s[i]
          /\ \A i \in 1..Len(t) : u[i + Len(s)] = t[i]
      OBVIOUS
    <2> HIDE DEF control, D, E, F, u
    <2> QED
      BY <2>1, <2>2
  <1> HIDE DEF D, E, F, u
  <1>3. FlattenSeq(Remaining(s \o t, F)) =
            FlattenSeq(Remaining(s, D)) \o FlattenSeq(Remaining(t, E))
    BY <1>2, RemainingConcat
  <1> QED
    BY <1>1, <1>3, Zenon

\* Other characters stay.
LEMMA CleanedOne ==
    ASSUME NEW c, c # "control"
    PROVE  Cleaned(<<c>>) = <<c>>
  <1> DEFINE A == {i \in DOMAIN <<c>> : <<c>>[i] = "control"}
             V == {c}
  <1>1. 1 \notin A /\ c \in V
    OBVIOUS
  <1>2. Cleaned(<<c>>) = FlattenSeq(Remaining(<<c>>, A))
    BY WithoutIsRemaining, Zenon DEF Cleaned
  <1> HIDE DEF A, V
  <1> QED
    BY <1>1, <1>2, RemainingShort

\* The members of the map of the wrapped keys, and the map that is read.
WrappedMember(name) == Member(name, JsonString(<<"k">> \o name))

WrappedOf(names) == [i \in DOMAIN names |-> WrappedMember(names[i])]

KeysOf(cleaned) == [x \in cleaned |-> <<"k">> \o x]

CleanedNames(names) == {Cleaned(names[i]) : i \in DOMAIN names}

\* One reader more.
LEMMA WrappedNext ==
    ASSUME NEW W, JsonSigns \subseteq W, NEW names \in Seq(Seq(W)), NEW name \in Seq(W)
    PROVE  /\ WrappedMember(name) \in Seq(W)
           /\ WrappedOf(<<>>) = <<>> /\ CleanedNames(<<>>) = {}
           /\ WrappedOf(names) \in Seq(Seq(W)) /\ Len(WrappedOf(names)) = Len(names)
           /\ WrappedOf(Append(names, name)) = Append(WrappedOf(names), WrappedMember(name))
           /\ CleanedNames(Append(names, name)) = CleanedNames(names) \cup {Cleaned(name)}
  <1> DEFINE M(x) == WrappedMember(x)
             n == Len(names)
             more == Append(names, name)
             a == WrappedOf(names)
             b == WrappedOf(more)
  <1>1. \A x \in Seq(W) : M(x) \in Seq(W)
    <2> SUFFICES ASSUME NEW x \in Seq(W) PROVE M(x) \in Seq(W)
      OBVIOUS
    <2>1. "k" \in W
      BY Zenon DEF JsonSigns
    <2>2. <<"k">> \o x \in Seq(W)
      BY <2>1
    <2> QED
      BY <2>2, MemberIsTyped DEF WrappedMember
  <1>2. n \in Nat /\ DOMAIN names = 1..n /\ \A i \in 1..n : names[i] \in Seq(W)
    BY LenProperties, ElementOfSeq
  <1>3. /\ more \in Seq(Seq(W)) /\ DOMAIN more = 1 .. n + 1 /\ more[n + 1] = name
        /\ \A i \in 1..n : more[i] = names[i]
    BY <1>2, AppendProperties
  <1>4. a = [i \in 1..n |-> M(names[i])] /\ b = [i \in 1 .. n + 1 |-> M(more[i])]
    BY <1>2, <1>3, Zenon DEF WrappedOf
  <1>5. WrappedOf(<<>>) = <<>> /\ CleanedNames(<<>>) = {}
    BY DEF WrappedOf, CleanedNames
  <1>6. CleanedNames(more) = CleanedNames(names) \cup {Cleaned(name)}
    <2>1. \A i \in 1 .. n + 1 : i = n + 1 \/ i \in 1..n
      BY <1>2
    <2>2. \A i \in 1..n : i \in 1 .. n + 1
      BY <1>2
    <2>3. n + 1 \in 1 .. n + 1
      BY <1>2
    <2> HIDE DEF n, more
    <2> QED
      BY <1>2, <1>3, <2>1, <2>2, <2>3, Zenon DEF CleanedNames
  <1> HIDE DEF M, n, more, a, b
  <1>7. \A i \in 1..n : M(names[i]) \in Seq(W)
    BY <1>1, <1>2, Zenon
  <1>8. \A i \in 1 .. n + 1 : M(more[i]) \in Seq(W)
    <2>1. \A i \in 1 .. n + 1 : more[i] \in Seq(W)
      <3>1. \A i \in 1 .. n + 1 : i = n + 1 \/ i \in 1..n
        BY <1>2
      <3> QED
        BY <1>2, <1>3, <3>1, Zenon
    <2> QED
      BY <1>1, <2>1, Zenon
  <1>9. a \in [1..n -> Seq(W)] /\ b \in [1 .. n + 1 -> Seq(W)]
    BY <1>4, <1>7, <1>8, Zenon
  <1>10. a \in Seq(Seq(W)) /\ Len(a) = n /\ b \in Seq(Seq(W)) /\ Len(b) = n + 1
    <2>1. n + 1 \in Nat
      BY <1>2
    <2> QED
      BY <1>2, <1>9, <2>1, FunctionSeq
  <1>11. b = Append(a, M(name))
    <2> DEFINE d == Append(a, M(name))
    <2>1. M(name) \in Seq(W)
      BY <1>1
    <2>2. /\ d \in Seq(Seq(W)) /\ Len(d) = n + 1 /\ d[n + 1] = M(name)
          /\ \A i \in 1..n : d[i] = a[i]
      BY <1>10, <2>1, AppendProperties
    <2>3. \A i \in 1..n : a[i] = M(names[i]) /\ i \in 1 .. n + 1
      BY <1>2, <1>4
    <2>4. n + 1 \in 1 .. n + 1
      BY <1>2
    <2>5. b[n + 1] = M(name)
      BY <1>3, <1>4, <2>4, Zenon
    <2>6. \A i \in 1..n : b[i] = a[i]
      BY <1>3, <1>4, <2>3, Zenon
    <2> HIDE DEF d
    <2>7. \A i \in 1 .. n + 1 : b[i] = d[i]
      <3>1. \A i \in 1 .. n + 1 : i = n + 1 \/ i \in 1..n
        BY <1>2
      <3> QED
        BY <2>2, <2>5, <2>6, <3>1, Zenon
    <2>8. b = d
      BY <1>10, <2>2, <2>7, SeqEqual
    <2> QED
      BY <2>8 DEF d
  <1>12. M(name) \in Seq(W)
    BY <1>1
  <1> QED
    BY <1>5, <1>6, <1>10, <1>11, <1>12, Zenon DEF M, n, more, a, b

\* One key more in the map.
LEMMA KeySet ==
    ASSUME NEW cleaned, NEW c
    PROVE  /\ Set(KeysOf(cleaned), c, <<"k">> \o c) = KeysOf(cleaned \cup {c})
           /\ KeysOf({}) = <<>>
  <1> DEFINE m == KeysOf(cleaned)
             f == Set(m, c, <<"k">> \o c)
  <1>1. DOMAIN m = cleaned /\ \A x \in cleaned : m[x] = <<"k">> \o x
    BY Zenon DEF KeysOf
  <1>2. f = [x \in cleaned \cup {c} |-> IF x = c THEN <<"k">> \o c ELSE m[x]]
    BY <1>1, Zenon DEF Set
  <1> HIDE DEF m
  <1>3. \A x \in cleaned \cup {c} : (IF x = c THEN <<"k">> \o c ELSE m[x]) = <<"k">> \o x
    BY <1>1, Zenon
  <1>4. f = [x \in cleaned \cup {c} |-> <<"k">> \o x]
    BY <1>2, <1>3, Zenon
  <1>5. KeysOf({}) = <<>>
    BY DEF KeysOf
  <1> QED
    BY <1>4, <1>5, Zenon DEF KeysOf, m

\* The map, up to its closing brace.
MapIsRead(o, names) ==
    \A s0, k0 : \E s, k :
        Parsing!Fold(At(FirstAt, Yes, s0, k0, o, <<>>), Joined(WrappedOf(names))) =
            At(IF names = <<>> THEN FirstAt ELSE NextAt, Yes, s, k, o, KeysOf(CleanedNames(names)))

\* The members of the map, read for any number of readers: induction over the names.
LEMMA MapRead ==
    ASSUME NEW W, JsonSigns \subseteq W, NEW o, NEW names \in Seq(Seq(W))
    PROVE  MapIsRead(o, names)
  <1> DEFINE T == {l \in Seq(Seq(W)) : MapIsRead(o, l)}
  <1>1. <<>> \in T
    <2>1. /\ WrappedOf(<<>>) = <<>> /\ CleanedNames(<<>>) = {}
      <3>1. <<>> \in Seq(Seq(W)) /\ <<>> \in Seq(W)
        OBVIOUS
      <3> QED
        BY <3>1, WrappedNext
    <2>2. Joined(<<>>) = <<>>
      <3>1. <<>> \in Seq(Seq(W)) /\ <<>> \in Seq(W) /\ "comma" \in W
        BY Zenon, EmptySeq DEF JsonSigns
      <3> QED
        BY <3>1, JoinedNext
    <2>3. \A base : Parsing!Fold(base, <<>>) = base
      BY ParsingInduction, Parsing!FoldEmpty
    <2>4. KeysOf({}) = <<>>
      BY KeySet
    <2>5. MapIsRead(o, <<>>)
      BY <2>1, <2>2, <2>3, <2>4, Zenon DEF MapIsRead
    <2> QED
      BY <2>5
  <1>2. ASSUME NEW l \in T, NEW name \in Seq(W) PROVE Append(l, name) \in T
    <2> DEFINE c == Cleaned(name)
               v == <<"k">> \o name
               x == Cleaned(v)
               ms == WrappedOf(l)
               member == WrappedMember(name)
               m == KeysOf(CleanedNames(l))
               next == KeysOf(CleanedNames(Append(l, name)))
               comma == <<"comma">>
    <2>1. l \in Seq(Seq(W)) /\ MapIsRead(o, l) /\ Append(l, name) \in Seq(Seq(W))
      BY AppendProperties
    <2>2. "k" \in W /\ "comma" \in W
      BY Zenon DEF JsonSigns
    <2>3. <<"k">> \in Seq(W) /\ comma \in Seq(W) /\ v \in Seq(W)
      BY <2>2
    <2>4. x = <<"k">> \o c
      <3>1. "k" # "control"
        OBVIOUS
      <3>2. Cleaned(<<"k">>) = <<"k">>
        BY <3>1, CleanedOne
      <3> QED
        BY <2>3, <3>2, CleanedConcat
    <2>5. /\ member \in Seq(W) /\ ms \in Seq(Seq(W)) /\ Len(ms) = Len(l)
          /\ WrappedOf(Append(l, name)) = Append(ms, member)
          /\ CleanedNames(Append(l, name)) = CleanedNames(l) \cup {c}
      BY <2>1, WrappedNext
    <2>6. Set(m, c, x) = next
      BY <2>4, <2>5, KeySet, Zenon
    <2>7. /\ Joined(ms) \in Seq(W)
          /\ ms = <<>> => Joined(Append(ms, member)) = member
          /\ ms # <<>> => Joined(Append(ms, member)) = Joined(ms) \o (comma \o member)
      <3>1. "comma" \in W /\ ms \in Seq(Seq(W)) /\ member \in Seq(W)
        BY <2>2, <2>5, Zenon
      <3> HIDE DEF T, c, v, x, ms, member, m, next
      <3> QED
        BY <3>1, JoinedNext
    <2>8. ASSUME NEW s, NEW k, NEW w \in {FirstAt, MemberAt}
          PROVE  Parsing!Fold(At(w, Yes, s, k, o, m), member) = At(NextAt, Yes, x, c, o, next)
      <3>1. MemberIsRead(name, v, w, s, k, o, m)
        <4> HIDE DEF v, m
        <4> QED
          BY <2>3, MemberRead
      <3>2. Parsing!Fold(At(w, Yes, s, k, o, m), member) = At(NextAt, Yes, x, c, o, Set(m, c, x))
        BY <3>1, Zenon DEF MemberIsRead, WrappedMember
      <3> QED
        BY <2>6, <3>2, Zenon
    <2>9. ms = <<>> <=> l = <<>>
      BY <2>1, <2>5, EmptySeq
    <2>10. Append(l, name) # <<>>
      <3>1. Len(Append(l, name)) = Len(l) + 1 /\ Len(l) \in Nat /\ Len(<<>>) = 0
        BY <2>1, AppendProperties
      <3> QED
        BY <3>1
    <2> HIDE DEF c, v, x, ms, member, m, next
    <2>11. CASE l = <<>>
      <3>1. \A s, k : Parsing!Fold(At(FirstAt, Yes, s, k, o, m), member) =
                          At(NextAt, Yes, x, c, o, next)
        BY <2>8
      <3>2. m = <<>>
        <4>1. \A s : CleanedNames(<<>>) = {}
          BY DEF CleanedNames
        <4>2. KeysOf({}) = <<>>
          BY KeySet
        <4> QED
          BY <2>11, <4>1, <4>2, Zenon DEF m
      <3>3. Joined(WrappedOf(Append(l, name))) = member
        BY <2>5, <2>7, <2>9, <2>11, Zenon
      <3>4. MapIsRead(o, Append(l, name))
        BY <2>10, <3>1, <3>2, <3>3, Zenon DEF MapIsRead, next
      <3> QED
        BY <2>1, <3>4
    <2>12. CASE l # <<>>
      <3>1. Joined(WrappedOf(Append(l, name))) = Joined(ms) \o (comma \o member)
        BY <2>5, <2>7, <2>9, <2>12, Zenon
      <3> DEFINE j == Joined(ms)
      <3>2. comma \o member \in Seq(W) /\ j \in Seq(W)
        BY <2>3, <2>5, <2>7, ConcatProperties
      <3>3. \A base : Parsing!Fold(base, comma) = ParseCharacter(base, "comma")
        BY ParseOne
      <3> HIDE DEF comma, j
      <3>4. \A base : Parsing!Fold(base, j \o (comma \o member)) =
                          Parsing!Fold(Parsing!Fold(base, j), comma \o member)
        BY <3>2, ParseConcat
      <3>5. \A base : Parsing!Fold(base, comma \o member) =
                          Parsing!Fold(Parsing!Fold(base, comma), member)
        BY <2>3, <2>5, ParseConcat
      <3>6. \A s, k : ParseCharacter(At(NextAt, Yes, s, k, o, m), "comma") =
                          At(MemberAt, Yes, s, k, o, m)
        <4> SUFFICES ASSUME NEW s, NEW k
                     PROVE  ParseCharacter(At(NextAt, Yes, s, k, o, m), "comma") =
                                At(MemberAt, Yes, s, k, o, m)
          OBVIOUS
        <4>1. SignsRead(Yes, s, k, o, m)
          BY SignRead
        <4> QED
          BY <4>1, Zenon DEF SignsRead
      <3>7. \A s, k : Parsing!Fold(At(MemberAt, Yes, s, k, o, m), member) =
                          At(NextAt, Yes, x, c, o, next)
        BY <2>8
      <3>8. \A s, k : Parsing!Fold(At(NextAt, Yes, s, k, o, m), comma \o member) =
                          At(NextAt, Yes, x, c, o, next)
        <4> SUFFICES ASSUME NEW s, NEW k
                     PROVE  Parsing!Fold(At(NextAt, Yes, s, k, o, m), comma \o member) =
                                At(NextAt, Yes, x, c, o, next)
          OBVIOUS
        <4> DEFINE base == At(NextAt, Yes, s, k, o, m)
        <4>1. Parsing!Fold(base, comma) = At(MemberAt, Yes, s, k, o, m)
          BY <3>3, <3>6, Zenon
        <4>2. Parsing!Fold(base, comma \o member) = Parsing!Fold(Parsing!Fold(base, comma), member)
          BY <3>5, Zenon
        <4> QED
          BY <3>7, <4>1, <4>2, Zenon
      <3>9. \A s0, k0 : \E s, k : Parsing!Fold(At(FirstAt, Yes, s0, k0, o, <<>>), j) =
                                      At(NextAt, Yes, s, k, o, m)
        BY <2>1, <2>12, Zenon DEF MapIsRead, j, ms, m
      <3>10. \A s0, k0 : Parsing!Fold(At(FirstAt, Yes, s0, k0, o, <<>>), j \o (comma \o member)) =
                             At(NextAt, Yes, x, c, o, next)
        BY <3>4, <3>8, <3>9, Zenon
      <3>11. MapIsRead(o, Append(l, name))
        BY <2>10, <3>1, <3>10, Zenon DEF MapIsRead, next, j
      <3> QED
        BY <2>1, <3>11
    <2> QED
      BY <2>11, <2>12
  <1>3. T = Seq(Seq(W))
    <2>1. T \in SUBSET Seq(Seq(W))
      OBVIOUS
    <2> HIDE DEF T
    <2> QED
      BY <1>1, <1>2, <2>1, SeqInduction
  <1> QED
    BY <1>3

-------------------------------------------------------------------------------
(* The file. *)

\* The text of the map of the wrapped keys.
MapText(names) == (<<"{">> \o Joined(WrappedOf(names))) \o <<"}">>

\* A text of one character.
LEMMA OneTyped ==
    ASSUME NEW W, NEW c \in W
    PROVE  <<c>> \in Seq(W)
  OBVIOUS

\* The map is a text of a chapter file.
LEMMA MapTyped ==
    ASSUME NEW W, JsonSigns \subseteq W, NEW names \in Seq(Seq(W))
    PROVE  Joined(WrappedOf(names)) \in Seq(W) /\ MapText(names) \in Seq(W)
  <1>1. "comma" \in W /\ "{" \in W /\ "}" \in W
    BY Zenon DEF JsonSigns
  <1>2. WrappedOf(names) \in Seq(Seq(W)) /\ <<>> \in Seq(W)
    <2>1. <<>> \in Seq(W)
      OBVIOUS
    <2> QED
      BY <2>1, WrappedNext
  <1>3. Joined(WrappedOf(names)) \in Seq(W)
    BY <1>1, <1>2, JoinedNext
  <1>4. <<"{">> \in Seq(W) /\ <<"}">> \in Seq(W)
    BY <1>1, OneTyped, Zenon
  <1> QED
    BY <1>3, <1>4, ConcatProperties DEF MapText

\* The member with the map.
MapIsMember(names, s0, k0, o, m0) ==
    \E s, k, m : Parsing!Fold(At(MemberAt, No, s0, k0, o, m0), Member(Wrapped, MapText(names))) =
                    At(NextAt, No, s, k, Set(o, Wrapped, KeysOf(CleanedNames(names))), m)

\* It is read so, whatever the names of the readers are.
LEMMA MapMemberRead ==
    ASSUME NEW W, JsonSigns \subseteq W, NEW names \in Seq(Seq(W)),
           NEW s0, NEW k0, NEW o, NEW m0
    PROVE  /\ Member(Wrapped, MapText(names)) \in Seq(W)
           /\ MapIsMember(names, s0, k0, o, m0)
  <1> DEFINE base == At(MemberAt, No, s0, k0, o, m0)
             h == JsonString(Wrapped) \o <<"colon">>
             j == Joined(WrappedOf(names))
             open == <<"{">>
             close == <<"}">>
             keys == KeysOf(CleanedNames(names))
             w == IF names = <<>> THEN FirstAt ELSE NextAt
  <1>1. Wrapped \in Seq(W) /\ open \in Seq(W) /\ close \in Seq(W)
    <2>1. "wrappedKeys" \in W /\ "{" \in W /\ "}" \in W
      BY Zenon DEF JsonSigns
    <2> QED
      BY <2>1, OneTyped, Zenon DEF Wrapped
  <1>2. Cleaned(Wrapped) = Wrapped
    <2>1. "wrappedKeys" # "control"
      OBVIOUS
    <2> QED
      BY <2>1, CleanedOne DEF Wrapped
  <1>3. h \in Seq(W) /\ Parsing!Fold(base, h) = At(ValueAt, No, Wrapped, Wrapped, o, m0)
    <2>1. MemberAt \in {FirstAt, MemberAt}
      OBVIOUS
    <2>2. /\ h \in Seq(W)
          /\ KeyIsRead(Wrapped, MemberAt, No, s0, k0, o, m0)
      BY <1>1, <2>1, KeyRead
    <2> QED
      BY <1>2, <2>2, Zenon DEF KeyIsRead
  <1>4. Parsing!Fold(At(ValueAt, No, Wrapped, Wrapped, o, m0), open) =
            At(FirstAt, Yes, Wrapped, Wrapped, o, <<>>)
    <2>1. ValuesBegin(Wrapped, Wrapped, o, m0)
      BY ValueBegins
    <2> QED
      BY <2>1, ParseOne, Zenon DEF ValuesBegin
  <1>5. PICK s, k : Parsing!Fold(At(FirstAt, Yes, Wrapped, Wrapped, o, <<>>), j) =
                        At(w, Yes, s, k, o, keys)
    <2>1. MapIsRead(o, names)
      BY MapRead
    <2> QED
      BY <2>1, Zenon DEF MapIsRead
  <1>6. Parsing!Fold(At(w, Yes, s, k, o, keys), close) =
            At(NextAt, No, s, k, Set(o, Wrapped, keys), keys)
    <2>1. w \in {FirstAt, NextAt}
      OBVIOUS
    <2> HIDE DEF w, keys
    <2>2. MapEnding(w, s, k, o, keys)
      BY <2>1, MapEnds
    <2> QED
      BY <2>2, ParseOne, Zenon DEF MapEnding
  <1>7. j \in Seq(W) /\ MapText(names) = (open \o j) \o close /\ MapText(names) \in Seq(W)
    BY MapTyped, Zenon DEF MapText
  <1>8. Member(Wrapped, MapText(names)) = h \o MapText(names)
    BY Zenon DEF Member
  <1> HIDE DEF base, h, j, open, close, keys, w
  <1> DEFINE begun == open \o j
  <1>9. begun \in Seq(W) /\ h \o MapText(names) \in Seq(W)
    BY <1>1, <1>3, <1>7, ConcatProperties
  <1>10. \A b : Parsing!Fold(b, open \o j) = Parsing!Fold(Parsing!Fold(b, open), j)
    BY <1>1, <1>7, ParseConcat
  <1>11. \A b : Parsing!Fold(b, h \o MapText(names)) =
             Parsing!Fold(Parsing!Fold(b, h), MapText(names))
    BY <1>3, <1>7, ParseConcat
  <1>12. \A b : Parsing!Fold(b, begun \o close) = Parsing!Fold(Parsing!Fold(b, begun), close)
    <2> HIDE DEF begun
    <2> QED
      BY <1>1, <1>9, ParseConcat
  <1>13. Parsing!Fold(At(ValueAt, No, Wrapped, Wrapped, o, m0), MapText(names)) =
             At(NextAt, No, s, k, Set(o, Wrapped, keys), keys)
    BY <1>4, <1>5, <1>6, <1>7, <1>10, <1>12, Zenon
  <1>14. Parsing!Fold(base, Member(Wrapped, MapText(names))) =
             At(NextAt, No, s, k, Set(o, Wrapped, keys), keys)
    BY <1>3, <1>8, <1>11, <1>13, Zenon
  <1>15. Member(Wrapped, MapText(names)) \in Seq(W)
    BY <1>8, <1>9, Zenon
  <1> QED
    BY <1>14, <1>15, Zenon DEF MapIsMember, base, keys

\* The four members in a row.
InARow(a, b, c, d) ==
    Joined(<<a, b, c, d>>) =
        ((a \o (<<"comma">> \o b)) \o (<<"comma">> \o c)) \o (<<"comma">> \o d)

\* Four members are joined by three commas.
LEMMA JoinedFour ==
    ASSUME NEW W, "comma" \in W,
           NEW a \in Seq(W), NEW b \in Seq(W), NEW c \in Seq(W), NEW d \in Seq(W)
    PROVE  InARow(a, b, c, d)
  <1> DEFINE l1 == <<a>>
             l2 == <<a, b>>
             l3 == <<a, b, c>>
             l4 == <<a, b, c, d>>
             none == <<>>
  <1>1. none \in Seq(Seq(W)) /\ l1 \in Seq(Seq(W)) /\ l2 \in Seq(Seq(W)) /\ l3 \in Seq(Seq(W))
    <2> DEFINE V == Seq(W)
    <2> HIDE DEF V
    <2>1. a \in V /\ b \in V /\ c \in V
      BY DEF V
    <2> QED
      BY <2>1 DEF V
  <1>2. l1 # none /\ l2 # none /\ l3 # none
    <2>1. Len(none) = 0 /\ Len(l1) = 1 /\ Len(l2) = 2 /\ Len(l3) = 3
      OBVIOUS
    <2> QED
      BY <2>1
  <1>3. /\ l1 = Append(none, a) /\ l2 = Append(l1, b) /\ l3 = Append(l2, c) /\ l4 = Append(l3, d)
    OBVIOUS
  <1> HIDE DEF l1, l2, l3, l4, none
  <1>0. none = <<>>
    BY DEF none
  <1>4. Joined(Append(none, a)) = a
    <2>1. none = <<>> => Joined(Append(none, a)) = a
      BY <1>1, JoinedNext
    <2> QED
      BY <1>0, <2>1, Zenon
  <1>5. Joined(Append(l1, b)) = Joined(l1) \o (<<"comma">> \o b)
    <2>1. l1 # <<>> => Joined(Append(l1, b)) = Joined(l1) \o (<<"comma">> \o b)
      BY <1>1, JoinedNext
    <2> QED
      BY <1>0, <1>2, <2>1, Zenon
  <1>6. Joined(Append(l2, c)) = Joined(l2) \o (<<"comma">> \o c)
    <2>1. l2 # <<>> => Joined(Append(l2, c)) = Joined(l2) \o (<<"comma">> \o c)
      BY <1>1, JoinedNext
    <2> QED
      BY <1>0, <1>2, <2>1, Zenon
  <1>7. Joined(Append(l3, d)) = Joined(l3) \o (<<"comma">> \o d)
    <2>1. l3 # <<>> => Joined(Append(l3, d)) = Joined(l3) \o (<<"comma">> \o d)
      BY <1>1, JoinedNext
    <2> QED
      BY <1>0, <1>2, <2>1, Zenon
  <1> QED
    BY <1>3, <1>4, <1>5, <1>6, <1>7, Zenon DEF InARow, l4

\* Parsed is the loop over the characters, from the beginning.
LEMMA ParsedIsFold ==
    ASSUME NEW V, NEW t \in Seq(V)
    PROVE  Parsed(t) = Parsing!Fold(Begin, t)
  <1> DEFINE n == Len(t)
             IsParse(f) ==
               f = [i \in 0..n |-> IF i = 0 THEN Begin ELSE ParseCharacter(f[i - 1], t[i])]
  <1>1. Parsed(t) = (CHOOSE f : IsParse(f))[n]
    BY DEF Parsed
  <1>2. /\ n \in Nat /\ 0 \in 0..n /\ n \in 0..n
        /\ \A i \in 1..n : i \in 0..n /\ i - 1 \in 0..n /\ i # 0
    OBVIOUS
  <1>3. PICK h : Parsing!IsRun(h, Begin, t)
    BY ParsingInduction, Parsing!FoldHasRun
  <1>4. h[0] = Begin /\ \A i \in 1..n : h[i] = ParseCharacter(h[i - 1], t[i])
    BY <1>3, Zenon DEF Parsing!IsRun
  <1> DEFINE g == [i \in 0..n |-> h[i]]
  <1>5. IsParse(g)
    <2> SUFFICES ASSUME NEW i \in 0..n
                 PROVE  h[i] = IF i = 0 THEN Begin ELSE ParseCharacter(g[i - 1], t[i])
      BY Zenon
    <2>1. CASE i = 0
      BY <1>4, <2>1, Zenon
    <2>2. CASE i # 0
      <3>1. i \in 1..n /\ i - 1 \in 0..n
        BY <1>2, <2>2
      <3>2. g[i - 1] = h[i - 1]
        BY <3>1, Zenon
      <3> QED
        BY <1>4, <2>2, <3>1, <3>2, Zenon
    <2> QED
      BY <2>1, <2>2
  <1>6. PICK f : IsParse(f) /\ Parsed(t) = f[n]
    BY <1>1, <1>5, Zenon
  <1>7. \A i \in 0..n : f[i] = IF i = 0 THEN Begin ELSE ParseCharacter(f[i - 1], t[i])
    BY <1>6, Zenon
  <1>8. f[0] = Begin /\ \A i \in 1..n : f[i] = ParseCharacter(f[i - 1], t[i])
    BY <1>2, <1>7, Zenon
  <1>9. Parsing!IsRun(f, Begin, t)
    BY <1>8, Zenon DEF Parsing!IsRun
  <1> QED
    BY <1>6, <1>9, ParsingInduction, Parsing!RunIsFold

\* Nothing follows the end of the file.
LEMMA EndIsKept ==
    ASSUME NEW V, NEW s \in Seq(V), NEW state, state.where = EndAt
    PROVE  Parsing!Fold(state, s) = state
  <1> DEFINE T == {t \in Seq(V) : Parsing!Fold(state, t) = state}
  <1>1. <<>> \in T
    <2>1. Parsing!Fold(state, <<>>) = state
      BY ParsingInduction, Parsing!FoldEmpty
    <2> QED
      BY <2>1
  <1>2. ASSUME NEW t \in T, NEW c \in V PROVE Append(t, c) \in T
    <2>1. t \in Seq(V) /\ Parsing!Fold(state, t) = state
      OBVIOUS
    <2>2. Parsing!Fold(state, Append(t, c)) = ParseCharacter(Parsing!Fold(state, t), c)
      BY <2>1, ParseOneMore
    <2>3. ParseCharacter(state, c) = state
      BY EndStays
    <2>4. Append(t, c) \in Seq(V)
      BY <2>1, AppendProperties
    <2>5. Parsing!Fold(state, Append(t, c)) = state
      BY <2>1, <2>2, <2>3, Zenon
    <2> QED
      BY <2>4, <2>5
  <1>3. T = Seq(V)
    <2>1. T \in SUBSET Seq(V)
      OBVIOUS
    <2> HIDE DEF T
    <2> QED
      BY <1>1, <1>2, <2>1, SeqInduction
  <1> QED
    BY <1>3

\* A comma, and the member behind it.
CommaIsRead(b, s, k, o, m) ==
    Parsing!Fold(At(NextAt, No, s, k, o, m), <<"comma">> \o b) =
        Parsing!Fold(At(MemberAt, No, s, k, o, m), b)

\* A comma is read so, and is a text of a chapter file.
LEMMA CommaRead ==
    ASSUME NEW W, "comma" \in W, NEW b \in Seq(W), NEW s, NEW k, NEW o, NEW m
    PROVE  /\ <<"comma">> \o b \in Seq(W)
           /\ CommaIsRead(b, s, k, o, m)
  <1> DEFINE comma == <<"comma">>
             st == At(NextAt, No, s, k, o, m)
             next == At(MemberAt, No, s, k, o, m)
  <1>1. SignsRead(No, s, k, o, m)
    BY SignRead
  <1>2. Parsing!Fold(st, comma) = next
    BY <1>1, ParseOne, Zenon DEF SignsRead
  <1>3. comma \in Seq(W)
    BY OneTyped, Zenon
  <1> HIDE DEF comma, st, next
  <1>4. comma \o b \in Seq(W)
    BY <1>3, ConcatProperties
  <1>5. Parsing!Fold(st, comma \o b) = Parsing!Fold(Parsing!Fold(st, comma), b)
    BY <1>3, ParseConcat
  <1> QED
    BY <1>2, <1>4, <1>5, Zenon DEF CommaIsRead, comma, st, next

\* The keys of the file.
SaltKey == <<"salt">>
IvKey == <<"iv">>
CipherKey == <<"ciphertext">>

\* The chapter file up to its closing brace, and what was read then.
FileFront(t, names) ==
    <<"{">> \o Joined(<<Member(SaltKey, JsonString(t)), Member(IvKey, JsonString(<<"a">>)),
                        Member(CipherKey, JsonString(t)), Member(Wrapped, MapText(names))>>)

SaltRead(t) == Set(<<>>, SaltKey, Cleaned(t))
IvRead(t) == Set(SaltRead(t), IvKey, <<"a">>)
CipherRead(t) == Set(IvRead(t), CipherKey, Cleaned(t))
ObjectRead(t, names) == Set(CipherRead(t), Wrapped, KeysOf(CleanedNames(names)))

\* The keys have no control character, and are different ones.
LEMMA KeysKept ==
    /\ Cleaned(SaltKey) = SaltKey /\ Cleaned(IvKey) = IvKey /\ Cleaned(CipherKey) = CipherKey
    /\ Cleaned(<<"a">>) = <<"a">>
    /\ SaltKey # IvKey /\ SaltKey # CipherKey /\ SaltKey # Wrapped
    /\ IvKey # CipherKey /\ IvKey # Wrapped /\ CipherKey # Wrapped
  <1>1. "salt" # "control" /\ "iv" # "control" /\ "ciphertext" # "control" /\ "a" # "control"
    OBVIOUS
  <1>2. /\ Cleaned(SaltKey) = SaltKey /\ Cleaned(IvKey) = IvKey /\ Cleaned(CipherKey) = CipherKey
        /\ Cleaned(<<"a">>) = <<"a">>
    BY <1>1, CleanedOne DEF SaltKey, IvKey, CipherKey
  <1>3. /\ SaltKey[1] = "salt" /\ IvKey[1] = "iv" /\ CipherKey[1] = "ciphertext"
        /\ Wrapped[1] = "wrappedKeys"
    BY DEF SaltKey, IvKey, CipherKey, Wrapped
  <1> QED
    BY <1>2, <1>3

\* Up to its closing brace the file is read so.
LEMMA FrontRead ==
    ASSUME NEW W, JsonSigns \subseteq W, NEW t \in Seq(W), NEW names \in Seq(Seq(W))
    PROVE  /\ FileFront(t, names) \in Seq(W)
           /\ \E s, k, m : Parsing!Fold(Begin, FileFront(t, names)) =
                               At(NextAt, No, s, k, ObjectRead(t, names), m)
  <1> DEFINE open == <<"{">>
             none == <<>>
             x == Cleaned(t)
             iv == <<"a">>
             a == Member(SaltKey, JsonString(t))
             b == Member(IvKey, JsonString(iv))
             c == Member(CipherKey, JsonString(t))
             d == Member(Wrapped, MapText(names))
             o1 == SaltRead(t)
             o2 == IvRead(t)
             o3 == CipherRead(t)
             comma == <<"comma">>
  <1>1. "comma" \in W /\ "a" \in W /\ "{" \in W /\ "salt" \in W /\ "iv" \in W /\ "ciphertext" \in W
    BY Zenon DEF JsonSigns
  <1>2. /\ SaltKey \in Seq(W) /\ IvKey \in Seq(W) /\ CipherKey \in Seq(W) /\ iv \in Seq(W)
        /\ open \in Seq(W)
    BY <1>1, OneTyped, Zenon DEF SaltKey, IvKey, CipherKey
  <1>3. a \in Seq(W) /\ b \in Seq(W) /\ c \in Seq(W)
    BY <1>2, MemberIsTyped
  <1>4. Parsing!Fold(Begin, open) = At(FirstAt, No, none, none, none, none)
    <2>1. Begin = At(StartAt, No, none, none, none, none)
      BY Zenon DEF Begin, At, St, StartAt, No
    <2>2. SignsRead(No, none, none, none, none)
      BY SignRead
    <2> QED
      BY <2>1, <2>2, ParseOne, Zenon DEF SignsRead
  <1>5. Parsing!Fold(At(FirstAt, No, none, none, none, none), a) =
            At(NextAt, No, x, SaltKey, o1, none)
    <2>1. FirstAt \in {FirstAt, MemberAt}
      OBVIOUS
    <2>2. MemberIsRead(SaltKey, t, FirstAt, none, none, none, none)
      <3> HIDE DEF none
      <3> QED
        BY <1>2, <2>1, MemberRead
    <2> QED
      BY <2>2, KeysKept, Zenon DEF MemberIsRead, SaltRead
  <1>6. Parsing!Fold(At(NextAt, No, x, SaltKey, o1, none), comma \o b) =
            At(NextAt, No, iv, IvKey, o2, none)
    <2>1. MemberAt \in {FirstAt, MemberAt}
      OBVIOUS
    <2>2. MemberIsRead(IvKey, iv, MemberAt, x, SaltKey, o1, none)
      <3> HIDE DEF none, x, o1, iv
      <3> QED
        BY <1>2, <2>1, MemberRead
    <2>3. Parsing!Fold(At(MemberAt, No, x, SaltKey, o1, none), b) =
              At(NextAt, No, iv, IvKey, o2, none)
      BY <2>2, KeysKept, Zenon DEF MemberIsRead, IvRead
    <2>4. Parsing!Fold(At(NextAt, No, x, SaltKey, o1, none), comma \o b) =
              Parsing!Fold(At(MemberAt, No, x, SaltKey, o1, none), b)
      <3>1. CommaIsRead(b, x, SaltKey, o1, none)
        <4> HIDE DEF none, x, o1, b
        <4> QED
          BY <1>1, <1>3, CommaRead
      <3> QED
        BY <3>1, Zenon DEF CommaIsRead
    <2> QED
      BY <2>3, <2>4, Zenon
  <1>7. Parsing!Fold(At(NextAt, No, iv, IvKey, o2, none), comma \o c) =
            At(NextAt, No, x, CipherKey, o3, none)
    <2>1. MemberAt \in {FirstAt, MemberAt}
      OBVIOUS
    <2>2. MemberIsRead(CipherKey, t, MemberAt, iv, IvKey, o2, none)
      <3> HIDE DEF none, iv, o2
      <3> QED
        BY <1>2, <2>1, MemberRead
    <2>3. Parsing!Fold(At(MemberAt, No, iv, IvKey, o2, none), c) =
              At(NextAt, No, x, CipherKey, o3, none)
      BY <2>2, KeysKept, Zenon DEF MemberIsRead, CipherRead
    <2>4. Parsing!Fold(At(NextAt, No, iv, IvKey, o2, none), comma \o c) =
              Parsing!Fold(At(MemberAt, No, iv, IvKey, o2, none), c)
      <3>1. CommaIsRead(c, iv, IvKey, o2, none)
        <4> HIDE DEF none, iv, o2, c
        <4> QED
          BY <1>1, <1>3, CommaRead
      <3> QED
        BY <3>1, Zenon DEF CommaIsRead
    <2> QED
      BY <2>3, <2>4, Zenon
  <1>8. /\ d \in Seq(W)
        /\ \E s, k, m : Parsing!Fold(At(NextAt, No, x, CipherKey, o3, none), comma \o d) =
                            At(NextAt, No, s, k, ObjectRead(t, names), m)
    <2>1. /\ d \in Seq(W)
          /\ \E s, k, m : Parsing!Fold(At(MemberAt, No, x, CipherKey, o3, none), d) =
                              At(NextAt, No, s, k, ObjectRead(t, names), m)
      <3>1. d \in Seq(W) /\ MapIsMember(names, x, CipherKey, o3, none)
        <4> HIDE DEF none, x, o3
        <4> QED
          BY MapMemberRead
      <3> QED
        BY <3>1, Zenon DEF MapIsMember, ObjectRead
    <2>2. Parsing!Fold(At(NextAt, No, x, CipherKey, o3, none), comma \o d) =
              Parsing!Fold(At(MemberAt, No, x, CipherKey, o3, none), d)
      <3>1. CommaIsRead(d, x, CipherKey, o3, none)
        <4> HIDE DEF none, x, o3, d
        <4> QED
          BY <1>1, <2>1, CommaRead
      <3> QED
        BY <3>1, Zenon DEF CommaIsRead
    <2> QED
      BY <2>1, <2>2, Zenon
  <1>9. FileFront(t, names) = open \o (((a \o (comma \o b)) \o (comma \o c)) \o (comma \o d))
    <2>1. Joined(<<a, b, c, d>>) = ((a \o (comma \o b)) \o (comma \o c)) \o (comma \o d)
      <3>1. d \in Seq(W)
        BY <1>8
      <3>2. InARow(a, b, c, d)
        <4> HIDE DEF a, b, c, d
        <4> QED
          BY <1>1, <1>3, <3>1, JoinedFour
      <3> QED
        BY <3>2, Zenon DEF InARow
    <2> QED
      BY <2>1, Zenon DEF FileFront
  <1> HIDE DEF open, none, x, iv, a, b, c, d, o1, o2, o3
  <1>10. comma \o b \in Seq(W) /\ comma \o c \in Seq(W) /\ comma \o d \in Seq(W)
    BY <1>1, <1>3, <1>8, CommaRead
  <1> DEFINE y == comma \o b
             z == comma \o c
             w == comma \o d
  <1> HIDE DEF comma, y, z, w
  <1>11. /\ a \o y \in Seq(W) /\ (a \o y) \o z \in Seq(W) /\ ((a \o y) \o z) \o w \in Seq(W)
         /\ open \o (((a \o y) \o z) \o w) \in Seq(W)
    BY <1>2, <1>3, <1>10, ConcatProperties DEF y, z, w
  <1>12. /\ \A e : Parsing!Fold(e, a \o y) = Parsing!Fold(Parsing!Fold(e, a), y)
         /\ \A e : Parsing!Fold(e, (a \o y) \o z) = Parsing!Fold(Parsing!Fold(e, a \o y), z)
         /\ \A e : Parsing!Fold(e, ((a \o y) \o z) \o w) =
                       Parsing!Fold(Parsing!Fold(e, (a \o y) \o z), w)
         /\ \A e : Parsing!Fold(e, open \o (((a \o y) \o z) \o w)) =
                       Parsing!Fold(Parsing!Fold(e, open), ((a \o y) \o z) \o w)
    <2>1. y \in Seq(W) /\ z \in Seq(W) /\ w \in Seq(W)
      BY <1>10 DEF y, z, w
    <2> DEFINE p == a \o y
               q == p \o z
               r == q \o w
    <2>2. p \in Seq(W) /\ q \in Seq(W) /\ r \in Seq(W)
      BY <1>11
    <2>3. \A e : Parsing!Fold(e, a \o y) = Parsing!Fold(Parsing!Fold(e, a), y)
      BY <1>3, <2>1, ParseConcat
    <2>4. \A e : Parsing!Fold(e, p \o z) = Parsing!Fold(Parsing!Fold(e, p), z)
      <3> HIDE DEF p
      <3> QED
        BY <2>1, <2>2, ParseConcat
    <2>5. \A e : Parsing!Fold(e, q \o w) = Parsing!Fold(Parsing!Fold(e, q), w)
      <3> HIDE DEF q
      <3> QED
        BY <2>1, <2>2, ParseConcat
    <2>6. \A e : Parsing!Fold(e, open \o r) = Parsing!Fold(Parsing!Fold(e, open), r)
      <3> HIDE DEF r
      <3> QED
        BY <1>2, <2>2, ParseConcat
    <2> QED
      BY <2>3, <2>4, <2>5, <2>6, Zenon
  <1>13. Parsing!Fold(Begin, open \o (((a \o y) \o z) \o w)) =
             Parsing!Fold(At(NextAt, No, x, CipherKey, o3, none), w)
    <2> DEFINE s0 == At(FirstAt, No, none, none, none, none)
               s1 == At(NextAt, No, x, SaltKey, o1, none)
               s2 == At(NextAt, No, iv, IvKey, o2, none)
               s3 == At(NextAt, No, x, CipherKey, o3, none)
    <2>1. Parsing!Fold(s1, y) = s2 /\ Parsing!Fold(s2, z) = s3
      BY <1>6, <1>7, Zenon DEF y, z
    <2>2. Parsing!Fold(s0, a \o y) = s2
      BY <1>5, <1>12, <2>1, Zenon
    <2>3. Parsing!Fold(s0, (a \o y) \o z) = s3
      BY <1>12, <2>1, <2>2, Zenon
    <2>4. Parsing!Fold(s0, ((a \o y) \o z) \o w) = Parsing!Fold(s3, w)
      BY <1>12, <2>3, Zenon
    <2> QED
      BY <1>4, <1>12, <2>4, Zenon
  <1> QED
    BY <1>8, <1>9, <1>11, <1>13, Zenon DEF y, z, w

\* What to_json writes.
LEMMA JsonIsFront ==
    ASSUME NEW W, NEW S, IsFiniteSet(S), S \subseteq Seq(W)
    PROVE  LET l == SetToSeq(S) IN
           /\ l \in Seq(Seq(W))
           /\ ToJson(ChapterFileOf(S)) = FileFront(text, l) \o <<"}">>
           /\ CleanedNames(l) = {Cleaned(x) : x \in S}
  <1> DEFINE l == SetToSeq(S)
             file == ChapterFileOf(S)
             keys == [name \in S |-> <<"k">> \o name]
             wrapped == [i \in DOMAIN l |-> Member(l[i], JsonString(keys[l[i]]))]
  <1>1. l \in Seq(S) /\ \A x \in S : \E i \in 1..Len(l) : l[i] = x
    BY Enumerated
  <1>2. DOMAIN l = 1..Len(l) /\ \A i \in DOMAIN l : l[i] \in S
    <2> HIDE DEF l
    <2> QED
      BY <1>1, LenProperties, ElementOfSeq
  <1>3. l \in Seq(Seq(W))
    <2> HIDE DEF l
    <2>1. \A i \in 1..Len(l) : l[i] \in Seq(W)
      BY <1>2
    <2>2. Len(l) \in Nat /\ l = [i \in 1..Len(l) |-> l[i]]
      BY <1>1
    <2> QED
      BY <2>1, <2>2
  <1>4. CleanedNames(l) = {Cleaned(x) : x \in S}
    <2> HIDE DEF l
    <2> QED
      BY <1>1, <1>2, Zenon DEF CleanedNames
  <1>5. wrapped = WrappedOf(l)
    <2> HIDE DEF l
    <2>1. \A i \in DOMAIN l : keys[l[i]] = <<"k">> \o l[i]
      BY <1>2, Zenon
    <2>2. \A i \in DOMAIN l : Member(l[i], JsonString(keys[l[i]])) = WrappedMember(l[i])
      BY <2>1, Zenon DEF WrappedMember
    <2> QED
      BY <2>2, Zenon DEF WrappedOf
  <1>6. /\ file["salt"] = text /\ file["iv"] = <<"a">> /\ file["ciphertext"] = text
        /\ file["wrappedKeys"] = keys /\ DOMAIN keys = S
    BY DEF ChapterFileOf
  <1>7. SetToSeq(DOMAIN file["wrappedKeys"]) = l
    BY <1>6, Zenon
  <1>8. ToJson(file) = FileFront(text, l) \o <<"}">>
    <2> HIDE DEF file, l, keys
    <2>1. [i \in DOMAIN l |-> Member(l[i], JsonString(file["wrappedKeys"][l[i]]))] = WrappedOf(l)
      BY <1>5, <1>6, Zenon
    <2> QED
      BY <1>6, <1>7, <2>1, Zenon DEF ToJson, FileFront, MapText, SaltKey, IvKey, CipherKey, Wrapped
  <1> QED
    BY <1>3, <1>4, <1>8, Zenon

\* A set of members, made of another one by adding a member or changing it.
HasMember(set, f, k, v) ==
  /\ DOMAIN set = DOMAIN f \cup {k} /\ set[k] = v
  /\ \A x \in DOMAIN f : x # k => set[x] = f[x]

\* Set makes such a set.
\* Set makes one.
LEMMA SetProperties == \A f, k, v : HasMember(Set(f, k, v), f, k, v)
  <1> SUFFICES ASSUME NEW f, NEW k, NEW v PROVE HasMember(Set(f, k, v), f, k, v)
    OBVIOUS
  <1> DEFINE D == DOMAIN f \cup {k}
  <1>1. Set(f, k, v) = [x \in D |-> IF x = k THEN v ELSE f[x]]
    BY Zenon DEF Set
  <1>2. k \in D /\ \A x \in DOMAIN f : x \in D
    OBVIOUS
  <1> HIDE DEF D
  <1>3. DOMAIN Set(f, k, v) = D /\ \A x \in D : Set(f, k, v)[x] = IF x = k THEN v ELSE f[x]
    BY <1>1, Zenon
  <1>4. Set(f, k, v)[k] = v
    BY <1>2, <1>3, Zenon
  <1>5. \A x \in DOMAIN f : x # k => Set(f, k, v)[x] = f[x]
    BY <1>2, <1>3, Zenon
  <1> QED
    BY <1>3, <1>4, <1>5, Zenon DEF D, HasMember

\* The object of the file.
LEMMA ObjectProperties ==
    ASSUME NEW t, NEW names
    PROVE  LET o == ObjectRead(t, names) IN
           /\ DOMAIN o = {SaltKey, IvKey, CipherKey, Wrapped}
           /\ o[SaltKey] = Cleaned(t) /\ o[IvKey] = <<"a">> /\ o[CipherKey] = Cleaned(t)
           /\ o[Wrapped] = KeysOf(CleanedNames(names))
  <1> DEFINE none == <<>>
             f1 == Set(none, SaltKey, Cleaned(t))
             f2 == Set(f1, IvKey, <<"a">>)
             f3 == Set(f2, CipherKey, Cleaned(t))
             f4 == Set(f3, Wrapped, KeysOf(CleanedNames(names)))
  <1>1. DOMAIN none = {} /\ f4 = ObjectRead(t, names)
    BY DEF ObjectRead, CipherRead, IvRead, SaltRead
  <1>2. HasMember(f1, none, SaltKey, Cleaned(t))
    BY SetProperties
  <1>3. HasMember(f2, f1, IvKey, <<"a">>)
    <2> HIDE DEF f1
    <2> QED
      BY SetProperties
  <1>4. HasMember(f3, f2, CipherKey, Cleaned(t))
    <2> HIDE DEF f2
    <2> QED
      BY SetProperties
  <1>5. HasMember(f4, f3, Wrapped, KeysOf(CleanedNames(names)))
    <2> HIDE DEF f3
    <2> QED
      BY SetProperties
  <1> HIDE DEF none, f1, f2, f3, f4
  <1>6. /\ DOMAIN f1 = {SaltKey} /\ DOMAIN f2 = {SaltKey, IvKey}
        /\ DOMAIN f3 = {SaltKey, IvKey, CipherKey}
        /\ DOMAIN f4 = {SaltKey, IvKey, CipherKey, Wrapped}
    BY <1>1, <1>2, <1>3, <1>4, <1>5 DEF HasMember
  <1>7. /\ f1[SaltKey] = Cleaned(t) /\ f2[IvKey] = <<"a">> /\ f3[CipherKey] = Cleaned(t)
        /\ f4[Wrapped] = KeysOf(CleanedNames(names))
    BY <1>2, <1>3, <1>4, <1>5, Zenon DEF HasMember
  <1>8. f2[SaltKey] = f1[SaltKey] /\ f3[SaltKey] = f2[SaltKey] /\ f4[SaltKey] = f3[SaltKey]
    BY <1>3, <1>4, <1>5, <1>6, KeysKept DEF HasMember
  <1>9. f3[IvKey] = f2[IvKey] /\ f4[IvKey] = f3[IvKey] /\ f4[CipherKey] = f3[CipherKey]
    BY <1>4, <1>5, <1>6, KeysKept DEF HasMember
  <1> QED
    BY <1>1, <1>6, <1>7, <1>8, <1>9, Zenon

\* The whole file, and a part of it.
LEMMA FileParsed ==
    ASSUME NEW W, JsonSigns \subseteq W, NEW t \in Seq(W), NEW names \in Seq(Seq(W))
    PROVE  LET json == FileFront(t, names) \o <<"}">> IN
           /\ Parsed(json).where = EndAt /\ Parsed(json).object = ObjectRead(t, names)
           /\ \A n \in 0 .. Len(json) - 1 : Parsed(SubSeq(json, 1, n)).where # EndAt
  <1> DEFINE front == FileFront(t, names)
             close == <<"}">>
             json == front \o close
             o == ObjectRead(t, names)
  <1>1. front \in Seq(W) /\ \E s, k, m : Parsing!Fold(Begin, front) = At(NextAt, No, s, k, o, m)
    BY FrontRead
  <1>2. PICK s, k, m : Parsing!Fold(Begin, front) = At(NextAt, No, s, k, o, m)
    BY <1>1, Zenon
  <1>3. close \in Seq(W)
    <2>1. "}" \in W
      BY Zenon DEF JsonSigns
    <2> QED
      BY <2>1, OneTyped, Zenon
  <1>4. \A b : Parsing!Fold(b, close) = ParseCharacter(b, "}")
    BY ParseOne
  <1>5. Len(close) = 1
    OBVIOUS
  <1> HIDE DEF front, close, o
  <1>6. json \in Seq(W) /\ Len(json) = Len(front) + 1 /\ Len(front) \in Nat
    <2> DEFINE whole == front \o close
    <2>1. whole \in Seq(W) /\ Len(whole) = Len(front) + Len(close) /\ Len(front) \in Nat
      BY <1>1, <1>3, ConcatProperties
    <2> QED
      BY <1>5, <2>1
  <1>7. Parsing!Fold(Begin, json) = Parsing!Fold(Parsing!Fold(Begin, front), close)
    BY <1>1, <1>3, ParseConcat
  <1>8. Parsing!Fold(Begin, json) = At(EndAt, No, s, k, o, m)
    <2>1. SignsRead(No, s, k, o, m)
      BY SignRead
    <2> QED
      BY <1>2, <1>4, <1>7, <2>1, Zenon DEF SignsRead
  <1>9. Parsed(json) = At(EndAt, No, s, k, o, m)
    <2> HIDE DEF json
    <2>1. Parsed(json) = Parsing!Fold(Begin, json)
      BY <1>6, ParsedIsFold
    <2> QED
      BY <1>8, <2>1, Zenon
  <1>10. Parsed(json).where = EndAt /\ Parsed(json).object = o
    <2>1. At(EndAt, No, s, k, o, m).where = EndAt /\ At(EndAt, No, s, k, o, m).object = o
      BY DEF At, St
    <2> QED
      BY <1>9, <2>1, Zenon
  <1>11. At(NextAt, No, s, k, o, m).where # EndAt
    <2>1. At(NextAt, No, s, k, o, m).where = NextAt
      BY DEF At, St
    <2>2. NextAt # EndAt
      BY DEF NextAt, EndAt
    <2> QED
      BY <2>1, <2>2, Zenon
  <1>12. ASSUME NEW n \in 0 .. Len(json) - 1 PROVE Parsed(SubSeq(json, 1, n)).where # EndAt
    <2> DEFINE part == SubSeq(front, 1, n)
               rest == SubSeq(front, n + 1, Len(front))
    <2>1. n \in Nat /\ n <= Len(front)
      BY <1>6
    <2>2. SubSeq(json, 1, n) = part
      BY <1>1, <1>3, <2>1, SubSeqOfConcat
    <2>3. part \in Seq(W) /\ rest \in Seq(W) /\ front = part \o rest
      <3>1. \A i \in 1..Len(front) : front[i] \in W
        BY <1>1, ElementOfSeq
      <3>2. part \in Seq(W)
        BY <1>6, <2>1, <3>1, SubSeqProperties
      <3>3. rest \in Seq(W)
        BY <1>6, <2>1, <3>1, SubSeqProperties
      <3>4. SubSeq(front, 1, Len(front)) = front
        BY <1>1, SubSeqFull
      <3>5. part \o rest = SubSeq(front, 1, Len(front))
        <4> DEFINE l == Len(front)
        <4>1. 1 \in 1 .. l + 1 /\ n \in 1 - 1 .. l /\ l \in n..l
          BY <1>6, <2>1
        <4> HIDE DEF l
        <4>2. SubSeq(front, 1, n) \o SubSeq(front, n + 1, l) = SubSeq(front, 1, l)
          BY <1>1, <4>1, ConcatAdjacentSubSeq DEF l
        <4> QED
          BY <4>2, Zenon DEF l
      <3> QED
        BY <3>2, <3>3, <3>4, <3>5, Zenon
    <2> HIDE DEF part, rest
    <2>4. Parsed(part) = Parsing!Fold(Begin, part)
      BY <2>3, ParsedIsFold
    <2>5. Parsing!Fold(Begin, part \o rest) = Parsing!Fold(Parsing!Fold(Begin, part), rest)
      BY <2>3, ParseConcat
    <2>6. ASSUME Parsed(part).where = EndAt PROVE FALSE
      <3> DEFINE st == Parsed(part)
      <3>1. Parsing!Fold(st, rest) = st
        <4> HIDE DEF st
        <4>1. st.where = EndAt
          BY <2>6 DEF st
        <4> QED
          BY <2>3, <4>1, EndIsKept
      <3>2. st = At(NextAt, No, s, k, o, m)
        BY <1>2, <2>3, <2>4, <2>5, <3>1, Zenon
      <3> QED
        BY <1>11, <2>6, <3>2, Zenon
    <2> QED
      BY <2>2, <2>6, Zenon
  <1> QED
    BY <1>10, <1>12, Zenon DEF front, close, json, o

\* The four fields, as keys.
LEMMA FieldKeys ==
  {<<f>> : f \in Fields} = {SaltKey, IvKey, CipherKey, Wrapped}
  BY DEF Fields, SaltKey, IvKey, CipherKey, Wrapped

\* What from_json makes of where the parser stands.
LEMMA EndRead ==
  ASSUME NEW s, Parsed(s).where = EndAt,
         DOMAIN Parsed(s).object = {SaltKey, IvKey, CipherKey, Wrapped}
  PROVE  LET file == FromJson(s)
             o == Parsed(s).object IN
         /\ file # NoChapterFile
         /\ file["salt"] = o[SaltKey] /\ file["iv"] = o[IvKey]
         /\ file["ciphertext"] = o[CipherKey] /\ file["wrappedKeys"] = o[Wrapped]
  <1> DEFINE o == Parsed(s).object
             file == [f \in Fields |-> o[<<f>>]]
  <1>1. FromJson(s) = file
    <2>1. Parsed(s).where = "end"
      BY Zenon DEF EndAt
    <2>2. {<<f>> : f \in Fields} \subseteq DOMAIN o
      BY FieldKeys
    <2> QED
      BY <2>1, <2>2, Zenon DEF FromJson
  <1>2. /\ "salt" \in Fields /\ "iv" \in Fields /\ "ciphertext" \in Fields
        /\ "wrappedKeys" \in Fields
    BY Zenon DEF Fields
  <1>3. file # NoChapterFile
    <2>1. DOMAIN file = Fields
      BY Zenon
    <2>2. DOMAIN NoChapterFile = {}
      BY DEF NoChapterFile
    <2> HIDE DEF file
    <2>3. DOMAIN file # DOMAIN NoChapterFile
      <3>1. DOMAIN file # {}
        BY <1>2, <2>1, Zenon
      <3> QED
        BY <2>2, <3>1, Zenon
    <2> QED
      BY <2>3, Zenon
  <1>4. /\ file["salt"] = o[SaltKey] /\ file["iv"] = o[IvKey]
        /\ file["ciphertext"] = o[CipherKey] /\ file["wrappedKeys"] = o[Wrapped]
    BY <1>2, Zenon DEF SaltKey, IvKey, CipherKey, Wrapped
  <1> QED
    BY <1>1, <1>3, <1>4, Zenon

\* What ChapterFileIsWholeOrNothing says.
LEMMA ChapterFileRead ==
  ASSUME Typing, format = "chapter_file"
  PROVE  ChapterFileRoundTrip /\ CutChapterFileIsNone
  <1> DEFINE W == Alphabets[format] \cup JsonSigns
             names == Tokens(text, "bar")
             S == Range(names)
             l == SetToSeq(S)
             json == FileFront(text, l) \o <<"}">>
             o == ObjectRead(text, l)
  <1>1. JsonSigns \subseteq W /\ text \in Seq(W)
    BY DEF Typing
  <1>2. names \in Seq(Seq(W))
    <2>1. "{" \in W
      BY Zenon DEF JsonSigns
    <2> HIDE DEF W
    <2> QED
      BY <1>1, <2>1, TokensProperties
  <1>3. IsFiniteSet(S) /\ S \subseteq Seq(W)
    <2> HIDE DEF W, names
    <2>1. Len(names) \in Nat /\ DOMAIN names = 1..Len(names)
      BY <1>2
    <2>2. S = {names[i] : i \in 1..Len(names)}
      BY <2>1, Zenon DEF Range
    <2> DEFINE D == 1..Len(names)
               R == {names[i] : i \in D}
    <2>3. IsFiniteSet(D)
      BY <2>1, FS_Interval
    <2>4. \A i \in D : names[i] \in Seq(W)
      BY <1>2
    <2> HIDE DEF D
    <2>5. IsFiniteSet(R)
      <3> DEFINE f == [i \in D |-> names[i]]
      <3>1. f \in [D -> R] /\ \A r \in R : \E i \in D : f[i] = r
        OBVIOUS
      <3>2. f \in Surjection(D, R)
        BY <3>1, Zenon DEF Surjection
      <3> QED
        BY <2>3, <3>2, FS_Surjection
    <2> QED
      BY <2>2, <2>4, <2>5, Zenon DEF D
  <1> HIDE DEF W, names, S
  <1>4. /\ l \in Seq(Seq(W)) /\ ToJson(ChapterFileOf(S)) = json
        /\ CleanedNames(l) = {Cleaned(x) : x \in S}
    BY <1>3, JsonIsFront
  <1> HIDE DEF l
  <1>5. /\ Parsed(json).where = EndAt /\ Parsed(json).object = o
        /\ \A n \in 0 .. Len(json) - 1 : Parsed(SubSeq(json, 1, n)).where # EndAt
    BY <1>1, <1>4, FileParsed
  <1>6. /\ DOMAIN o = {SaltKey, IvKey, CipherKey, Wrapped}
        /\ o[SaltKey] = Cleaned(text) /\ o[IvKey] = <<"a">> /\ o[CipherKey] = Cleaned(text)
        /\ o[Wrapped] = KeysOf(CleanedNames(l))
    BY ObjectProperties
  <1> HIDE DEF json, o
  <1>7. LET file == FromJson(json) IN
        /\ file # NoChapterFile
        /\ file["salt"] = o[SaltKey] /\ file["iv"] = o[IvKey]
        /\ file["ciphertext"] = o[CipherKey] /\ file["wrappedKeys"] = o[Wrapped]
    <2>1. DOMAIN Parsed(json).object = {SaltKey, IvKey, CipherKey, Wrapped}
      BY <1>5, <1>6, Zenon
    <2> QED
      BY <1>5, <1>6, <2>1, EndRead, Zenon
  <1>8. ChapterFileRoundTrip
    <2> DEFINE keys == KeysOf({Cleaned(x) : x \in S})
    <2>1. /\ DOMAIN keys = {Cleaned(x) : x \in S}
          /\ \A x \in DOMAIN keys : keys[x] = <<"k">> \o x
      BY Zenon DEF KeysOf
    <2>2. FromJson(json)["wrappedKeys"] = keys
      BY <1>4, <1>6, <1>7, Zenon
    <2> HIDE DEF keys
    <2>3. /\ DOMAIN FromJson(json)["wrappedKeys"] = {Cleaned(x) : x \in S}
          /\ \A x \in DOMAIN FromJson(json)["wrappedKeys"] :
               FromJson(json)["wrappedKeys"][x] = <<"k">> \o x
      BY <2>1, <2>2, Zenon
    <2>4. /\ FromJson(json)["salt"] = Cleaned(text) /\ FromJson(json)["iv"] = <<"a">>
          /\ FromJson(json)["ciphertext"] = Cleaned(text)
      BY <1>6, <1>7, Zenon
    <2> QED
      BY <1>4, <1>7, <2>3, <2>4, Zenon DEF ChapterFileRoundTrip, Cleaned, S, names
  <1>9. CutChapterFileIsNone
    <2>1. \A part \in Cuts(json) : FromJson(part) = NoChapterFile
      <3>1. SUFFICES ASSUME NEW part \in Cuts(json) PROVE FromJson(part) = NoChapterFile
        OBVIOUS
      <3>2. PICK n \in 0 .. Len(json) - 1 : part = SubSeq(json, 1, n)
        BY Zenon DEF Cuts
      <3>3. Parsed(part).where # "end"
        BY <1>5, <3>2, Zenon DEF EndAt
      <3> QED
        BY <3>3, Zenon DEF FromJson
    <2> QED
      BY <1>4, <2>1, Zenon DEF CutChapterFileIsNone, S, names
  <1> QED
    BY <1>8, <1>9

\* A chapter file is read as it was written, but for the control characters, and no part of
\* it is read as a chapter file.
THEOREM ChapterFileCorrect == Spec => []ChapterFileIsWholeOrNothing
  <1>1. Typing => ChapterFileIsWholeOrNothing
    <2>1. CASE format = "chapter_file"
      BY <2>1, ChapterFileRead, Zenon DEF ChapterFileIsWholeOrNothing
    <2>2. CASE format # "chapter_file"
      BY <2>2, Zenon DEF ChapterFileIsWholeOrNothing, ChapterFileRoundTrip, CutChapterFileIsNone
    <2> QED
      BY <2>1, <2>2, Zenon
  <1> QED
    BY <1>1, TextIsOfFormat, PTL
===============================================================================
