----------------------------- MODULE JstrCtype -----------------------------
(***************************************************************************)
(* Characters of jstring are bytes, here their codes.  The classes of      *)
(* internal/musl/ctype.h are ASCII whatever the locale: a byte above 127   *)
(* belongs to none of them.                                                *)
(***************************************************************************)
EXTENDS Integers

Byte == 0..255

Nul == 0

IsUpper(c) == c \in 65..90

IsLower(c) == c \in 97..122

IsAlpha(c) == IsUpper(c) \/ IsLower(c)

IsDigit(c) == c \in 48..57

IsSpace(c) == c = 32 \/ c \in 9..13

ToLower(c) == IF IsUpper(c) THEN c + 32 ELSE c

ToUpper(c) == IF IsLower(c) THEN c - 32 ELSE c
=============================================================================
