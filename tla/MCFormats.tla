------------------------------- MODULE MCFormats -------------------------------
(***************************************************************************)
(* The characters that each format tells apart, and how long a text gets.  *)
(***************************************************************************)
EXTENDS Formats

MCAlphabets ==
    [chapters     |-> {"zero", "one", "nine", "comma", "minus"},
     keys         |-> {"a", "b", "backspace", "enter"},
     file_name    |-> {"prefix", "suffix", "zero", "two", "nine", "letter"},
     bytes        |-> {0, 77, 255},
     arguments    |-> {"a", "umlaut", "space", "quote", "backslash", "separator"},
     chapter_file |-> {"a", "u", "quote", "backslash", "newline", "control", "bar"},
     listing      |-> {"a", "b", "quote", "file", "dir"},
     content      |-> {"a", "n", "line"},
     size         |-> {"0", "1"}]

MCMaxLength ==
    [chapters |-> 6, keys |-> 6, file_name |-> 5, bytes |-> 6, arguments |-> 6,
     chapter_file |-> 4, listing |-> 5, content |-> 5, size |-> 3]
===============================================================================
