---------------------------- MODULE MCStreaming -----------------------------
(* Instances of Streaming for TLC.                                           *)
EXTENDS Streaming

MCByte == {"/", "x", "nl", "lead", "cont"}

\* Two bytes alike and no overlap with itself, as "/Type /Page" has it.
MCToken == <<"/", "/", "x">>

Strings(alphabet, n) == UNION {[1..k -> alphabet] : k \in 0..n}

\* All short texts, and enough room for two tokens and a byte.
Bodies == Strings({"x", "nl", "lead", "cont"}, 5) \cup Strings({"/", "x"}, 7)

\* Every body under one name, and every short name for one body.
MCUploads == (Bodies \X {<<"x", ".", "x">>}) \cup ({<<"x">>} \X Strings({"/", ".", "x"}, 5))
=============================================================================
