------------------------------- MODULE MCRam -------------------------------
(* Two pages, one for the kernel and one for the user, over frames of any   *)
(* bank, with RAM of several sizes.  A page is one word, so that the second *)
(* word of a 32-bit access is always in the next page.                      *)
EXTENDS Ram

MCBytes == {0, 255}
AnyFrame == {[st |-> Present, we |-> TRUE, frame |-> f] : f \in Frames}
MCEntries == AnyFrame \cup {[st |-> Absent, we |-> TRUE, frame |-> <<0, 0>>],
                            [st |-> Present, we |-> FALSE, frame |-> <<0, 0>>]}
MCSizes == {<<1, 0>>, <<2, 0>>, <<1, 1>>, <<1, 2>>}
\* Expansion RAM of 1536K, which validate_memory accepts.
SizesOf1536K == {<<1, 3>>}
=============================================================================
