---------------------------- MODULE MCServeStart ---------------------------
(***************************************************************************)
(* ServeStart for TLC: a path that may lead to a file of every sort.  No   *)
(* two usable files hold the same key, so a key tells where it came from.  *)
(***************************************************************************)
EXTENDS ServeStart

MCFiles   == {"good", "renewed", "loose", "rsa", "blank", "fifo"}
MCKind    == [f \in MCFiles |-> IF f = "fifo" THEN "fifo" ELSE "regular"]
MCStrict  == [f \in MCFiles |-> f # "loose"]
MCContent == [f \in MCFiles |-> CASE f = "good" -> "k1"
                                  [] f = "renewed" -> "k2"
                                  [] f = "loose" -> "k3"
                                  [] f = "rsa" -> "rsa"
                                  [] OTHER -> "nothing"]
=============================================================================
