------------------------------ MODULE Chunking ------------------------------
(***************************************************************************)
(* How the Discord adapter cuts a long message (adapters/discord.rs).      *)
(*                                                                         *)
(* A text is a sequence of bytes.  "nl" is a newline, "cont" a byte that   *)
(* continues a UTF-8 character, every other byte starts one.  Rust slices  *)
(* a string by byte offsets and panics when an offset lies inside a        *)
(* character.                                                              *)
(***************************************************************************)
EXTENDS Integers, Sequences, FiniteSetsExt, SequencesExt

CONSTANT MaxLen   \* the longest chunk, in bytes (2000)

ASSUME ChunkingAssumption == MaxLen \in Nat \ {0}

Byte == {"x", "nl", "lead", "cont"}
Panic == <<"panic">>   \* the slice inside a character, in place of a chunk

\* Does t[..MaxLen] end inside a character?
CutsCharacter(t) == t[MaxLen + 1] = "cont"

\* After the last newline within the limit, else at the limit.
SplitAt(t) ==
  LET newlines == {i \in 1..MaxLen : t[i] = "nl"}
  IN IF newlines = {} THEN MaxLen ELSE Max(newlines)

\* chunk_message(t, MaxLen)
chunks[t \in Seq(Byte)] ==
  IF Len(t) <= MaxLen THEN <<t>>
  ELSE IF CutsCharacter(t) THEN <<Panic>>
  ELSE LET cut == SplitAt(t)
       IN <<SubSeq(t, 1, cut)>> \o chunks[SubSeq(t, cut + 1, Len(t))]

Panics(t) == Panic \in ToSet(chunks[t])
=============================================================================
