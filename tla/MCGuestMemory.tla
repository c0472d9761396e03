---------------------------- MODULE MCGuestMemory ----------------------------
(***************************************************************************)
(* Instances of GuestMemory: pages of 4 bytes, two requests.  One has data *)
(* that begins in the page of its header and fills parts of three pages;   *)
(* the other has no data.  Pages 1 to 6 and 8 to 11 are memory.            *)
(***************************************************************************)
EXTENDS GuestMemory

Segment(at, len, write) == [at |-> at, len |-> len, write |-> write]

MCChains == {<<Segment(4, 2, FALSE), Segment(7, 6, TRUE), Segment(14, 1, TRUE)>>,
             <<Segment(18, 1, FALSE), Segment(19, 1, TRUE)>>}

Modern(grant) == [grant |-> grant, legacy |-> FALSE, rings |-> <<32, 36, 41>>]
Legacy == [grant |-> FALSE, legacy |-> TRUE, rings |-> <<40>>]

MCDrivers == {Modern(TRUE), Modern(FALSE), Legacy}
AnyBuild == BOOLEAN
EveryMapping == {"ram", "ring", "chain"}

\* The kernel takes the lowest place where n pages are free.
FirstFit(D, n) ==
    {Min({v \in FirstPage .. FirstPage + Cardinality(D) * (n + 1) : (v .. v + n - 1) \cap D = {}})}
=============================================================================
