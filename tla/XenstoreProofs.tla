---------------------------- MODULE XenstoreProofs ----------------------------
(***************************************************************************)
(* Theorems about Xenstore, for any number of guests: type correctness, and *)
(* that a connected guest is only let go when it has gone.                 *)
(***************************************************************************)
EXTENDS Xenstore, TLAPS

(***************************************************************************)
(* Type correctness                                                        *)
(***************************************************************************)

\* What the types rest on: no directory is of a guest to come, the guest about to
\* be checked is newer than the last one, and the one being served is a guest.
GuestInv ==
    /\ dirs \subseteq 1 .. newest
    /\ pc \in {"check", "check_fe"} => curr_domid > domid
    /\ pc \notin Searching => domid # 0

LEMMA InitTypeOK == Init => TypeOK /\ GuestInv
  BY XenstoreAssumption, SMT DEF Init, TypeOK, GuestInv, Searching, Domids

LEMMA NextTypeOK == TypeOK /\ GuestInv /\ [Next]_vars => TypeOK' /\ GuestInv'
  <1> SUFFICES ASSUME TypeOK, GuestInv, [Next]_vars PROVE TypeOK' /\ GuestInv'
    OBVIOUS
  <1> USE XenstoreAssumption DEF TypeOK, GuestInv, Searching, Connecting, Domids, storeVars
  <1>1. CASE watch_path
    BY <1>1, SMT DEF watch_path, xs_watch
  <1>2. CASE poll_be_watch
    BY <1>2, SMT DEF poll_be_watch
  <1>3. CASE get_fe_domid
    BY <1>3, SMT DEF get_fe_domid
  <1>4. CASE no_directory
    BY <1>4, SMT DEF no_directory
  <1>5. CASE check_fe_directory \/ check_fe_exists
    <2>1. CASE check_fe_directory
      BY <2>1, SMT DEF check_fe_directory
    <2>2. CASE check_fe_exists
      BY <2>2, SMT DEF check_fe_exists
    <2> QED
      BY <1>5, <2>1, <2>2
  <1>6. CASE read_be
    BY <1>6, SMT DEF read_be, Goto
  <1>7. CASE init_wait
    BY <1>7, SMT DEF init_wait, set_be_state
  <1>8. CASE read_fe
    BY <1>8, SMT DEF read_fe, Goto
  <1>9. CASE watch_be
    BY <1>9, SMT DEF watch_be, xs_watch
  <1>10. CASE watch_fe
    BY <1>10, SMT DEF watch_fe, xs_watch
  <1>11. CASE wait_be_state
    BY <1>11, SMT DEF wait_be_state, Goto
  <1>12. CASE wait_be_again
    BY <1>12, SMT DEF wait_be_again
  <1>13. CASE read_config
    BY <1>13, SMT DEF read_config, Goto
  <1>14. CASE poll_watches
    BY <1>14, SMT DEF poll_watches
  <1>15. CASE set_closed
    BY <1>15, SMT DEF set_closed, set_be_state
  <1>16. CASE disconnect
    BY <1>16, SMT DEF disconnect
  <1>17. CASE ts_create
    BY <1>17, SMT DEF ts_create
  <1>18. ASSUME NEW d \in Domids, ts_complete(d) PROVE TypeOK' /\ GuestInv'
    BY <1>18, SMT DEF ts_complete
  <1>19. ASSUME NEW d \in Domids, ts_closing(d) PROVE TypeOK' /\ GuestInv'
    BY <1>19, SMT DEF ts_closing
  <1>20. ASSUME NEW d \in Domids, ts_destroy(d) PROVE TypeOK' /\ GuestInv'
    BY <1>20, SMT DEF ts_destroy
  <1>21. CASE UNCHANGED vars
    BY <1>21, SMT DEF vars
  <1> QED
    BY <1>1, <1>2, <1>3, <1>4, <1>5, <1>6, <1>7, <1>8, <1>9, <1>10, <1>11, <1>12, <1>13, <1>14,
       <1>15, <1>16, <1>17, <1>18, <1>19, <1>20, <1>21, Zenon
       DEF Next, Find, Connect, Leave, Toolstack

\* The store, the watches and the ids of the guests keep their types: a guest is
\* never both incomplete and complete, and virtio-disk never serves one that has
\* not been created.
THEOREM TypeCorrect == Safety => []TypeOK
  <1> QED
    BY InitTypeOK, NextTypeOK, PTL DEF Safety

(***************************************************************************)
(* A guest that is there is kept                                           *)
(***************************************************************************)

\* The state of a guest's backend is only missing when the guest has gone, or
\* when virtio-disk itself has served it and removed the nodes: disconnect does
\* not ask whether the guest has gone.
StateInv ==
    \A d \in full : be_state[d] = Absent => d < domid \/ (d = domid /\ pc \in Searching)

LEMMA InitStateInv == Init => StateInv
  BY DEF Init, StateInv

LEMMA NextStateInv == TypeOK /\ GuestInv /\ StateInv /\ [Next]_vars => StateInv'
  <1> SUFFICES ASSUME TypeOK, GuestInv, StateInv, [Next]_vars PROVE StateInv'
    OBVIOUS
  <1> USE DEF TypeOK, GuestInv, StateInv, Searching, Connecting, Domids, storeVars, Absent
  <1>1. CASE watch_path
    BY <1>1, SMT DEF watch_path, xs_watch
  <1>2. CASE poll_be_watch
    BY <1>2, SMT DEF poll_be_watch
  <1>3. CASE get_fe_domid
    <2>1. UNCHANGED <<full, be_state, domid>> /\ pc = "directory" /\ pc' \in {"check", "poll"}
      BY <1>3, Zenon DEF get_fe_domid
    <2> QED
      BY <2>1, SMT
  <1>4. CASE no_directory
    BY <1>4, SMT DEF no_directory
  <1>5. CASE check_fe_directory \/ check_fe_exists
    <2>1. CASE check_fe_directory
      BY <2>1, SMT DEF check_fe_directory
    <2>2. CASE check_fe_exists
      BY <2>2, SMT DEF check_fe_exists
    <2> QED
      BY <1>5, <2>1, <2>2
  <1>6. CASE read_be
    BY <1>6, SMT DEF read_be, Goto
  <1>7. CASE init_wait
    BY <1>7, SMT DEF init_wait, set_be_state
  <1>8. CASE read_fe
    BY <1>8, SMT DEF read_fe, Goto
  <1>9. CASE watch_be
    BY <1>9, SMT DEF watch_be, xs_watch
  <1>10. CASE watch_fe
    BY <1>10, SMT DEF watch_fe, xs_watch
  <1>11. CASE wait_be_state
    BY <1>11, SMT DEF wait_be_state, Goto
  <1>12. CASE wait_be_again
    BY <1>12, SMT DEF wait_be_again
  <1>13. CASE read_config
    BY <1>13, SMT DEF read_config, Goto
  <1>14. CASE poll_watches
    BY <1>14, SMT DEF poll_watches
  <1>15. CASE set_closed
    BY <1>15, SMT DEF set_closed, set_be_state
  <1>16. CASE disconnect
    BY <1>16, SMT DEF disconnect
  <1>17. CASE ts_create
    BY <1>17, SMT DEF ts_create
  <1>18. ASSUME NEW d \in Domids, ts_complete(d) PROVE StateInv'
    BY <1>18, SMT DEF ts_complete
  <1>19. ASSUME NEW d \in Domids, ts_closing(d) PROVE StateInv'
    BY <1>19, SMT DEF ts_closing
  <1>20. ASSUME NEW d \in Domids, ts_destroy(d) PROVE StateInv'
    BY <1>20, SMT DEF ts_destroy
  <1>21. CASE UNCHANGED vars
    BY <1>21, SMT DEF vars
  <1> QED
    BY <1>1, <1>2, <1>3, <1>4, <1>5, <1>6, <1>7, <1>8, <1>9, <1>10, <1>11, <1>12, <1>13, <1>14,
       <1>15, <1>16, <1>17, <1>18, <1>19, <1>20, <1>21, Zenon
       DEF Next, Find, Connect, Leave, Toolstack

\* Whatever events earlier guests and watches have left, xenstore_poll_watches
\* only gives up a guest whose nodes are gone.
THEOREM GuestKept == Safety => KeptWhileThere
  <1>1. TypeOK /\ GuestInv /\ StateInv /\ [Next]_vars
            => [pc = "connected" /\ pc' = "close" => domid \notin full]_vars
    <2> SUFFICES ASSUME TypeOK, GuestInv, StateInv, Next, pc = "connected", pc' = "close"
                 PROVE  domid \notin full
      BY Zenon
    <2>1. poll_watches
      <3> USE DEF storeVars
      <3>1. ~Find
        BY SMT DEF Find, watch_path, poll_be_watch, get_fe_domid, no_directory,
           check_fe_directory, check_fe_exists
      <3>2. ~Connect
        BY SMT DEF Connect, read_be, init_wait, read_fe, watch_be, watch_fe, wait_be_state,
           wait_be_again, read_config, Goto
      <3>3. ~Toolstack
        BY SMT DEF Toolstack, ts_create, ts_complete, ts_closing, ts_destroy
      <3>4. ~set_closed /\ ~disconnect
        BY SMT DEF set_closed, disconnect
      <3> QED
        BY <3>1, <3>2, <3>3, <3>4, Zenon DEF Next, Leave
    <2>2. be_state[domid] = Absent \/ domid \notin full
      BY <2>1, SMT DEF poll_watches
    <2> QED
      BY <2>2, SMT DEF StateInv, Searching, TypeOK
  <1> QED
    BY <1>1, InitTypeOK, NextTypeOK, InitStateInv, NextStateInv, PTL DEF Safety, KeptWhileThere
=============================================================================
