------------------------------ MODULE CString ------------------------------
(* Strings in arrays of STRING_LIMIT bytes, as C keeps them.               *)
EXTENDS Integers, Sequences, FiniteSetsExt

CONSTANTS STRING_LIMIT, Char, NUL

Cell == 0 .. STRING_LIMIT - 1
Buffer == [Cell -> Char \cup {NUL}]

Terminated(s) == \E i \in Cell : s[i] = NUL

(* strlen; an array without a terminator is read to its end here.          *)
Strlen(s) == IF Terminated(s) THEN Min({i \in Cell : s[i] = NUL}) ELSE STRING_LIMIT

(* What printf shows of it.                                                *)
Visible(s) == [i \in 1 .. Strlen(s) |-> s[i - 1]]

(* strncpy( to, s, STRING_LIMIT ) pads with zeros; strcpy( to, s ) leaves  *)
(* what was behind the terminator.                                         *)
Strncpy(s) == [i \in Cell |-> IF i < Strlen(s) THEN s[i] ELSE NUL]
Strcpy(to, s) == [i \in Cell |-> IF i < Strlen(s) THEN s[i]
                                 ELSE IF i = Strlen(s) THEN NUL ELSE to[i]]

(* The array that holds a text, with zeros behind it.                      *)
Filled(text) == [i \in Cell |-> IF i < Len(text) THEN text[i + 1] ELSE NUL]
=============================================================================
