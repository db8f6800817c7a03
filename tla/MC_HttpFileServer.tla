------------------------- MODULE MC_HttpFileServer -------------------------
(* HttpFileServer with a plain name and one that has the extension inside, and
   with the faults that a run allows: one of each kind, and an unlink that fails
   when it should remove what another failure left.                           *)
EXTENDS HttpFileServer

PlainName == {<<"a">>}
BothNames == PlainName \cup {<<"b", ".br", ".txt">>}

EachFault == {{f} : f \in AllFaults}
FailedCleanups == {{f, "unlink"} : f \in {"gone", "flash", "codec"}}
AnyFault == EachFault \cup FailedCleanups

=============================================================================
