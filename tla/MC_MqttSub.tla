---------------------------- MODULE MC_MqttSub ----------------------------
(* Small instances of MqttSub for TLC. *)
EXTENDS MqttSub, TLC

\* Every block that looks like a header holds the same name, one of the host's;
\* every block that looks like a tailer holds the digest of a file of one plain
\* block.
AName == CHOOSE n \in Names : TRUE
APlainBlock == CHOOSE c \in Chunks \ Blocks128 : TRUE
NameInBlock == [c \in HeaderLike |-> AName]
DigestInBlock == [c \in TailerLike |-> <<APlainBlock>>]
=============================================================================
