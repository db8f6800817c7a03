--------------------------- MODULE MC_TcpSession ---------------------------
(* TcpSession on short files. "h" and "t" are blocks whose text begins with   *)
(* the words that mark a header and a tailer, "t" with the MD5 of an empty    *)
(* file; "u" is a block of 128 bytes that is no UTF-8 text.                   *)
EXTENDS TcpSession

CONSTANTS Upload, Download  \* the blocks used in either direction

MCFiles == {<<>>} \cup {<<a>> : a \in Upload} \cup {<<a, b>> : a, b \in Upload}

MCCompressed == {<<a>> : a \in Download} \cup {<<a, b>> : a, b \in Download}

MCDigestIn == [t \in TailerLike |-> <<>>]

=============================================================================
