--------------------------- MODULE VirtioMmioProofs ---------------------------
(***************************************************************************)
(* Theorems about VirtioMmio, for both register layouts, every feature     *)
(* set, capacity and place of the rings, and drivers that probe, fail, go  *)
(* and come in any order: an enabled queue has one thread, one eventfd and *)
(* its driver's rings, a driver finds the queue idle, and both sides agree *)
(* on what was read and written through the windows and halves.            *)
(***************************************************************************)
EXTENDS VirtioMmio, SequenceTheorems, WellFoundedInduction, TLAPS

(***************************************************************************)
(* The invariant                                                           *)
(***************************************************************************)

\* The queue and what init_vq has made for it: a thread that reads its eventfd
\* until io_done is set, which is exactly when somebody waits for it.
QueueInv ==
    /\ enabled \in BOOLEAN /\ ioDone \in BOOLEAN /\ registered \in BOOLEAN
    /\ main \in {"idle", "join", "join_exit"}
    /\ ioEfd \in {0} \cup Fds /\ ioThread \in {0} \cup Fds /\ pending \in SUBSET Fds
    /\ enabled => /\ registered /\ vring # NoRings
                  /\ ioEfd \in Fds /\ ioThread \in Fds /\ fds = {ioEfd}
                  /\ Threads \subseteq {ioThread} /\ \A t \in Threads : reads[t] \in {0, ioEfd}
                  /\ main = "idle" => ~ioDone /\ Threads = {ioThread}
                  /\ main # "idle" => ioDone
                  /\ legacy => vringAddr.pfn # 0
    /\ ~enabled => main = "idle" /\ Threads = {} /\ fds = {} /\ vring = NoRings

\* The registers.
RegTypeOK ==
    /\ legacy \in BOOLEAN /\ status \in SUBSET StatusBits
    /\ DOMAIN hdr = StoredRegs /\ DOMAIN vringAddr = DOMAIN ZeroAddr
    /\ start \in BOOLEAN /\ features \in SUBSET HostFeatures
    /\ drvFeatures \in SUBSET HostFeatures /\ work \in BOOLEAN

\* What is left of a list of accesses.
Rest(t, list) ==
    /\ t \in Seq({list[k] : k \in 1 .. Len(list)})
    /\ Len(t) <= Len(list)
    /\ \A k \in 1 .. Len(t) : t[k] = list[Len(list) - Len(t) + k]

High == IF legacy THEN {} ELSE {"VERSION_1", "ACCESS_PLATFORM"}
Told == <<Capacity % Word, Capacity \div Word, QueueSize>>
RingsOf(a) == IF legacy THEN <<QueueSize, a * PageSize, PageSize>>
              ELSE <<QueueSize, a, a + 1, a + 2>>
Bound == <<Write("STATUS", Ok \cup {"DRIVER_OK"})>>
Kick == <<Write("QUEUE_NOTIFY", 0)>>

\* The driver is in its list, and has seen what was read: the windows that it
\* has selected.
NegotiateInv ==
    /\ Rest(todo, Negotiate)
    /\ Len(todo) \in {3, 4, 5} => seen = <<>>
    /\ Len(todo) = 3 => hdr.DEVICE_FEATURES_SEL = 1
    /\ Len(todo) \in {1, 2} => seen = <<High>>
    /\ Len(todo) = 1 => hdr.DEVICE_FEATURES_SEL = 0
    /\ Len(todo) = 0 => seen = <<High, HostFeatures>>

\* The low window alone is kept.
FeaturesInv ==
    LET list == Accept(High, drvFeatures)
        done == Len(list) - Len(todo)
    IN /\ Rest(todo, list)
       /\ done \in {1, 2} => hdr.DRIVER_FEATURES_SEL = 1
       /\ done = 3 => hdr.DRIVER_FEATURES_SEL = 0
       /\ done >= 4 => drvFeatures \subseteq features

\* What the driver reads of the queue says whether it is in use.
FindInv ==
    /\ Rest(todo, FindQueue)
    /\ todo # <<>> => seen = <<>>
    /\ todo = <<>> => Len(seen) = 1 /\ (seen[1] = 0 => ~enabled)

\* The halves of the addresses are written one by one to a queue at rest.
HalvesSet(va, a, done) ==
    IF legacy THEN done >= 5 => va.QUEUE_ALIGN = PageSize
    ELSE /\ done >= 5 => va.DESC_LOW = a % Word
         /\ done >= 6 => va.DESC_HIGH = a \div Word
         /\ done >= 7 => va.AVAIL_LOW = (a + 1) % Word
         /\ done >= 8 => va.AVAIL_HIGH = (a + 1) \div Word
         /\ done >= 9 => va.USED_LOW = (a + 2) % Word
         /\ done >= 10 => va.USED_HIGH = (a + 2) \div Word

SetUpInv(a) ==
    LET done == Len(SetUp(a)) - Len(todo)
    IN /\ Rest(todo, SetUp(a)) /\ drvRings = RingsOf(a)
       /\ todo # <<>> => ~enabled /\ (registered => HalvesSet(vringAddr, a, done))
       /\ done = 0 => seen = <<>>
       /\ done = 1 => seen = <<Capacity % Word>>
       /\ done = 2 => seen = <<Capacity % Word, Capacity \div Word>>
       /\ done >= 3 => seen = Told

ScriptInv ==
    /\ drv = "off" => todo = <<>>
    /\ drv = "probe" => Rest(todo, Identify)
    /\ drv = "probe" /\ legacy /\ Len(todo) <= 2 => hdr.GUEST_PAGE_SIZE = PageSize
    /\ drv \notin {"off", "probe"} /\ legacy => hdr.GUEST_PAGE_SIZE = PageSize
    /\ drv = "negotiate" => NegotiateInv
    /\ drv = "features" => FeaturesInv
    /\ drv = "queue" => FindInv
    /\ drv = "ready" => \E a \in Addrs : SetUpInv(a)
    /\ drv = "bound" => todo \in {<<>>, Bound, Kick} /\ seen = Told
    /\ drv = "failed" => Rest(todo, GiveUp)
    /\ drv = "removed" => Rest(todo, Unbind)
    /\ drv \in {"queue", "ready", "bound"} => drvFeatures \subseteq features
    /\ drv \in {"off", "probe", "negotiate", "features", "queue", "ready", "bound", "failed",
                "removed"}

\* The queue that a driver has set up is its own until it gives it up, or the
\* device is removed.
RingsInv ==
    drv = "bound" \/ (drv = "ready" /\ todo = <<>>) =>
        /\ ioEfd \in Fds /\ main # "join"
        /\ main = "idle" /\ registered => enabled
        /\ enabled => vring = drvRings

\* A queue that the driver before has left enabled is one of a started device, and
\* goes away with the reset.
IdleInv ==
    /\ drv \in {"off", "probe"} => ~enabled \/ start \/ main # "idle"
    /\ drv \in {"probe", "removed", "failed"} =>
           /\ Len(todo) <= 1 => ~enabled \/ main # "idle"
           /\ todo = <<>> => ~enabled
    /\ drv \in {"negotiate", "features", "queue"} => ~enabled

(***************************************************************************)
(* Lists of accesses                                                       *)
(***************************************************************************)

\* A list is what is left of it before its first access.
LEMMA RestOfAll == ASSUME NEW S, NEW L \in Seq(S) PROVE Rest(L, L)
  <1>1. Len(L) \in Nat /\ DOMAIN L = 1 .. Len(L)
    BY LenProperties
  <1> DEFINE T == {L[k] : k \in 1 .. Len(L)}
  <1>2. \A k \in 1 .. Len(L) : L[k] \in T
    OBVIOUS
  <1> HIDE DEF T
  <1>3. L \in Seq(T)
    BY <1>1, <1>2
  <1> QED
    BY <1>1, <1>3 DEF Rest, T

\* An access takes the head, which is the one its place in the list says.
LEMMA RestStep ==
    ASSUME NEW t, NEW L, Len(L) \in Nat, Rest(t, L), t # <<>>
    PROVE  /\ Len(t) \in 1 .. Len(L) /\ Head(t) = L[Len(L) - Len(t) + 1]
           /\ Rest(Tail(t), L) /\ Len(Tail(t)) = Len(t) - 1
  <1> DEFINE S == {L[k] : k \in 1 .. Len(L)}
  <1>1. t \in Seq(S) /\ Len(t) <= Len(L) /\ \A k \in 1 .. Len(t) : t[k] = L[Len(L) - Len(t) + k]
    BY DEF Rest
  <1> HIDE DEF S
  <1>2. Len(t) \in Nat /\ Len(t) # 0 /\ Head(t) = t[1] /\ Tail(t) \in Seq(S)
    BY <1>1, HeadTailProperties, EmptySeq, LenProperties
  <1>3. Len(Tail(t)) = Len(t) - 1 /\ \A k \in 1 .. Len(Tail(t)) : Tail(t)[k] = t[k + 1]
    BY <1>1, <1>2, HeadTailProperties
  <1>4. \A k \in 1 .. Len(Tail(t)) : Tail(t)[k] = L[Len(L) - Len(Tail(t)) + k]
    BY <1>1, <1>2, <1>3
  <1> QED
    BY <1>1, <1>2, <1>3, <1>4 DEF Rest, S

\* Nothing is left, or something is.
LEMMA RestLen ==
    ASSUME NEW t, NEW L, Len(L) \in Nat, Rest(t, L)
    PROVE  Len(t) \in 0 .. Len(L) /\ (Len(t) = 0 <=> t = <<>>)
  BY LenProperties, EmptySeq DEF Rest

LEMMA Fields ==
    \A r, v : /\ Write(r, v).write = TRUE /\ Write(r, v).reg = r /\ Write(r, v).val = v
              /\ Read(r).write = FALSE /\ Read(r).reg = r
  BY DEF Write, Read

\* The lists of a driver, access by access.
LEMMA IdentifyList ==
    /\ Rest(Identify, Identify) /\ Len(Identify) \in Nat
    /\ legacy => /\ Len(Identify) = 4
                 /\ Identify[1] = Read("VERSION")
                 /\ Identify[2] = Write("GUEST_PAGE_SIZE", PageSize)
                 /\ Identify[3] = Write("STATUS", {})
                 /\ Identify[4] = Write("STATUS", {"ACKNOWLEDGE"})
    /\ ~legacy => /\ Len(Identify) = 3
                  /\ Identify[1] = Read("VERSION")
                  /\ Identify[2] = Write("STATUS", {})
                  /\ Identify[3] = Write("STATUS", {"ACKNOWLEDGE"})
  <1> DEFINE S == {Read("VERSION"), Write("GUEST_PAGE_SIZE", PageSize), Write("STATUS", {}),
                   Write("STATUS", {"ACKNOWLEDGE"})}
  <1>1. Identify \in Seq(S)
    <2>1. CASE legacy
      BY <2>1 DEF Identify
    <2>2. CASE ~legacy
      BY <2>2 DEF Identify
    <2> QED
      BY <2>1, <2>2
  <1> HIDE DEF S
  <1>2. Rest(Identify, Identify)
    BY <1>1, RestOfAll
  <1>3. Len(Identify) \in Nat
    BY <1>1, LenProperties
  <1>4. CASE legacy
    BY <1>2, <1>3, <1>4 DEF Identify
  <1>5. CASE ~legacy
    BY <1>2, <1>3, <1>5 DEF Identify
  <1> QED
    BY <1>4, <1>5

LEMMA NegotiateList ==
    /\ Rest(Negotiate, Negotiate) /\ Len(Negotiate) = 5
    /\ Negotiate[1] = Write("STATUS", {"ACKNOWLEDGE", "DRIVER"})
    /\ Negotiate[2] = Write("DEVICE_FEATURES_SEL", 1)
    /\ Negotiate[3] = Read("DEVICE_FEATURES")
    /\ Negotiate[4] = Write("DEVICE_FEATURES_SEL", 0)
    /\ Negotiate[5] = Read("DEVICE_FEATURES")
  <1> DEFINE S == {Write("STATUS", {"ACKNOWLEDGE", "DRIVER"}), Write("DEVICE_FEATURES_SEL", 1),
                   Read("DEVICE_FEATURES"), Write("DEVICE_FEATURES_SEL", 0)}
  <1>1. Negotiate \in Seq(S)
    BY DEF Negotiate
  <1> HIDE DEF S
  <1> QED
    BY <1>1, RestOfAll DEF Negotiate

LEMMA AcceptList ==
    ASSUME NEW high, NEW fs
    PROVE  /\ Rest(Accept(high, fs), Accept(high, fs))
           /\ Len(Accept(high, fs)) = IF legacy THEN 4 ELSE 6
           /\ Accept(high, fs)[1] = Write("DRIVER_FEATURES_SEL", 1)
           /\ Accept(high, fs)[2] = Write("DRIVER_FEATURES", high)
           /\ Accept(high, fs)[3] = Write("DRIVER_FEATURES_SEL", 0)
           /\ Accept(high, fs)[4] = Write("DRIVER_FEATURES", fs)
           /\ ~legacy =>
                /\ Accept(high, fs)[5] = Write("STATUS", {"ACKNOWLEDGE", "DRIVER", "FEATURES_OK"})
                /\ Accept(high, fs)[6] = Read("STATUS")
  <1> DEFINE S == {Write("DRIVER_FEATURES_SEL", 1), Write("DRIVER_FEATURES", high),
                   Write("DRIVER_FEATURES_SEL", 0), Write("DRIVER_FEATURES", fs),
                   Write("STATUS", {"ACKNOWLEDGE", "DRIVER", "FEATURES_OK"}), Read("STATUS")}
  <1>1. Accept(high, fs) \in Seq(S)
    <2>1. CASE legacy
      BY <2>1 DEF Accept
    <2>2. CASE ~legacy
      BY <2>2 DEF Accept
    <2> QED
      BY <2>1, <2>2
  <1> HIDE DEF S
  <1>2. Rest(Accept(high, fs), Accept(high, fs))
    BY <1>1, RestOfAll
  <1>3. Len(Accept(high, fs)) \in Nat
    BY <1>1, LenProperties
  <1>4. CASE legacy
    BY <1>2, <1>3, <1>4 DEF Accept
  <1>5. CASE ~legacy
    BY <1>2, <1>3, <1>5 DEF Accept
  <1> QED
    BY <1>4, <1>5

LEMMA FindQueueList ==
    /\ Rest(FindQueue, FindQueue) /\ Len(FindQueue) = 2
    /\ FindQueue[1] = Write("QUEUE_SEL", 0) /\ FindQueue[2] = Read(QueueReg)
  <1> DEFINE S == {Write("QUEUE_SEL", 0), Read(QueueReg)}
  <1>1. FindQueue \in Seq(S)
    BY DEF FindQueue
  <1> HIDE DEF S
  <1> QED
    BY <1>1, RestOfAll DEF FindQueue

LEMMA SetUpList ==
    ASSUME NEW a
    PROVE  /\ Rest(SetUp(a), SetUp(a)) /\ Len(SetUp(a)) = IF legacy THEN 6 ELSE 11
           /\ SetUp(a)[1] = Read("CONFIG_LOW") /\ SetUp(a)[2] = Read("CONFIG_HIGH")
           /\ SetUp(a)[3] = Read("QUEUE_NUM_MAX") /\ SetUp(a)[4] = Write("QUEUE_NUM", QueueSize)
           /\ legacy => /\ SetUp(a)[5] = Write("QUEUE_ALIGN", PageSize)
                        /\ SetUp(a)[6] = Write("QUEUE_PFN", a)
           /\ ~legacy => /\ SetUp(a)[5] = Write("DESC_LOW", a % Word)
                         /\ SetUp(a)[6] = Write("DESC_HIGH", a \div Word)
                         /\ SetUp(a)[7] = Write("AVAIL_LOW", (a + 1) % Word)
                         /\ SetUp(a)[8] = Write("AVAIL_HIGH", (a + 1) \div Word)
                         /\ SetUp(a)[9] = Write("USED_LOW", (a + 2) % Word)
                         /\ SetUp(a)[10] = Write("USED_HIGH", (a + 2) \div Word)
                         /\ SetUp(a)[11] = Write("QUEUE_READY", 1)
  <1> DEFINE S == {Read("CONFIG_LOW"), Read("CONFIG_HIGH"), Read("QUEUE_NUM_MAX"),
                   Write("QUEUE_NUM", QueueSize), Write("QUEUE_ALIGN", PageSize),
                   Write("QUEUE_PFN", a),
                   Write("DESC_LOW", a % Word), Write("DESC_HIGH", a \div Word),
                   Write("AVAIL_LOW", (a + 1) % Word), Write("AVAIL_HIGH", (a + 1) \div Word),
                   Write("USED_LOW", (a + 2) % Word), Write("USED_HIGH", (a + 2) \div Word),
                   Write("QUEUE_READY", 1)}
  <1>1. SetUp(a) \in Seq(S)
    <2>1. CASE legacy
      BY <2>1 DEF SetUp
    <2>2. CASE ~legacy
      BY <2>2 DEF SetUp
    <2> QED
      BY <2>1, <2>2
  <1> HIDE DEF S
  <1>2. Rest(SetUp(a), SetUp(a))
    BY <1>1, RestOfAll
  <1>3. Len(SetUp(a)) \in Nat
    BY <1>1, LenProperties
  <1>4. CASE legacy
    BY <1>2, <1>3, <1>4 DEF SetUp
  <1>5. CASE ~legacy
    BY <1>2, <1>3, <1>5 DEF SetUp
  <1> QED
    BY <1>4, <1>5

LEMMA GiveUpList ==
    /\ Rest(GiveUp, GiveUp) /\ Len(GiveUp) = 3
    /\ GiveUp[1] = Write("QUEUE_SEL", 0) /\ GiveUp[2] = Write(QueueReg, 0)
    /\ GiveUp[3] = Write("STATUS", Ok \cup {"FAILED"})
  <1> DEFINE S == {Write("QUEUE_SEL", 0), Write(QueueReg, 0), Write("STATUS", Ok \cup {"FAILED"})}
  <1>1. GiveUp \in Seq(S)
    BY DEF GiveUp
  <1> HIDE DEF S
  <1> QED
    BY <1>1, RestOfAll DEF GiveUp

LEMMA UnbindList ==
    /\ Rest(Unbind, Unbind) /\ Len(Unbind) = 4
    /\ Unbind[1] = Write("STATUS", {}) /\ Unbind[2] = Write("QUEUE_SEL", 0)
    /\ Unbind[3] = Write(QueueReg, 0) /\ Unbind[4] = Write("STATUS", {"ACKNOWLEDGE"})
  <1> DEFINE S == {Write("STATUS", {}), Write("QUEUE_SEL", 0), Write(QueueReg, 0),
                   Write("STATUS", {"ACKNOWLEDGE"})}
  <1>1. Unbind \in Seq(S)
    BY DEF Unbind
  <1> HIDE DEF S
  <1> QED
    BY <1>1, RestOfAll DEF Unbind

(***************************************************************************)
(* What an access does, register by register                               *)
(***************************************************************************)

LEMMA StoredWritten ==
    ASSUME NEW r \in StoredRegs, NEW v, config_out(r, v)
    PROVE  /\ hdr' = [hdr EXCEPT ![r] = v]
           /\ UNCHANGED <<legacy, status, start, features, vqVars, blkVars, main, registered>>
  BY DEF config_out, config_out_legacy, config_out_modern, config_out_both, StoredRegs, AddrRegs

LEMMA StatusWritten ==
    ASSUME NEW v, config_out("STATUS", v)
    PROVE  virtio_notify_status(v) /\ UNCHANGED <<hdr, legacy, features, registered>>
  BY DEF config_out, config_out_legacy, config_out_modern, config_out_both, StoredRegs, AddrRegs

LEMMA FeaturesWritten ==
    ASSUME NEW v, config_out("DRIVER_FEATURES", v)
    PROVE  /\ features' = IF hdr.DRIVER_FEATURES_SEL = 0 THEN features \cup v ELSE features
           /\ UNCHANGED <<hdr, legacy, status, start, vqVars, blkVars, main, registered>>
  BY DEF config_out, config_out_legacy, config_out_modern, config_out_both, StoredRegs, AddrRegs,
         virtio_set_guest_features

LEMMA AddrWritten ==
    ASSUME NEW r \in AddrRegs, NEW v, config_out(r, v)
    PROVE  /\ vringAddr' = [vringAddr EXCEPT ![r] = v]
           /\ UNCHANGED <<hdr, legacy, status, start, features, vring, enabled, blkVars, main,
                          registered>>
  BY DEF config_out, config_out_legacy, config_out_modern, config_out_both, StoredRegs, AddrRegs,
         set_vring_addr

LEMMA NotifyWritten ==
    ASSUME NEW v, config_out("QUEUE_NOTIFY", v)
    PROVE  /\ pending' = pending \cup {ioEfd}
           /\ UNCHANGED <<hdrVars, vqVars, ioDone, ioEfd, ioThread, fds, reads, main, registered>>
  BY DEF config_out, config_out_legacy, config_out_modern, config_out_both, StoredRegs, AddrRegs,
         notify_vq, hdrVars

LEMMA QueueEnabled ==
    ASSUME NEW v, v # 0, config_out(QueueReg, v)
    PROVE  /\ init_vq
           /\ legacy => vringAddr' = [vringAddr EXCEPT !.pfn = v, !.pgsize = hdr.GUEST_PAGE_SIZE]
           /\ ~legacy => vringAddr' = vringAddr
           /\ UNCHANGED <<hdrVars, main, registered>>
  BY DEF config_out, config_out_legacy, config_out_modern, config_out_both, StoredRegs, AddrRegs,
         QueueReg, set_queue, hdrVars

LEMMA QueueDisabled ==
    ASSUME config_out(QueueReg, 0)
    PROVE  exit_vq("join") /\ UNCHANGED <<hdrVars, registered>>
  BY DEF config_out, config_out_legacy, config_out_modern, config_out_both, StoredRegs, AddrRegs,
         QueueReg, set_queue, hdrVars

\* The registers in the lists of a driver.
LEMMA Registers ==
    /\ {"DEVICE_FEATURES_SEL", "DRIVER_FEATURES_SEL", "QUEUE_SEL", "QUEUE_NUM"} \subseteq StoredRegs
    /\ legacy => "GUEST_PAGE_SIZE" \in StoredRegs /\ "QUEUE_ALIGN" \in AddrRegs
                 /\ QueueReg = "QUEUE_PFN"
    /\ ~legacy => /\ {"DESC_LOW", "DESC_HIGH", "AVAIL_LOW", "AVAIL_HIGH", "USED_LOW", "USED_HIGH"}
                         = AddrRegs
                  /\ QueueReg = "QUEUE_READY"
  BY DEF StoredRegs, AddrRegs, QueueReg

(***************************************************************************)
(* The queue                                                               *)
(***************************************************************************)

LEMMA MinFd == ASSUME NEW S \in SUBSET Fds, S # {} PROVE Min(S) \in S
  <1> DEFINE R == OpToRel(<, Nat)
  <1>0. S \subseteq Nat
    BY MmioAssumption DEF Fds
  <1>1. IsWellFoundedOn(R, Nat)
    BY NatLessThanWellFounded, Zenon
  <1>2. \A x, y \in Nat : <<y, x>> \in R <=> y < x
    BY DEF OpToRel
  <1> HIDE DEF R
  <1>3. PICK x \in S : \A y \in S : ~ (<<y, x>> \in R)
    BY <1>0, <1>1, WFMin
  <1>4. ASSUME NEW y \in S PROVE x <= y
    <2>1. x \in Nat /\ y \in Nat
      BY <1>0
    <2>2. ~ (y < x)
      BY <1>2, <1>3, <2>1, Zenon
    <2> QED
      BY <2>1, <2>2
  <1> QED
    BY <1>4 DEF Min

LEMMA InitVqStep ==
    ASSUME QueueInv, ~enabled, init_vq, UNCHANGED <<legacy, main, registered>>, registered,
           legacy => vringAddr'.pfn # 0
    PROVE  QueueInv' /\ enabled' /\ ioEfd' \in Fds /\ main' = main /\ vring' = RingsAt(vringAddr')
  <1> DEFINE fd == Min(Fds \ fds)
             t == Min(Fds \ Threads)
  <1>1. Fds \ fds # {} /\ Fds \ Threads # {}
    BY DEF init_vq
  <1>2. fd \in Fds /\ t \in Fds
    BY <1>1, MinFd, Zenon
  <1> HIDE DEF fd, t
  <1>3. /\ enabled' = TRUE /\ vring' = RingsAt(vringAddr') /\ ioDone' = FALSE
        /\ ioEfd' = fd /\ ioThread' = t /\ fds' = fds \cup {fd} /\ pending' = pending \ {fd}
        /\ reads' = [u \in Threads \cup {t} |-> IF u = t THEN fd ELSE reads[u]]
    BY Zenon DEF init_vq, fd, t
  <1>4. Threads = {} /\ fds = {} /\ main = "idle"
    BY DEF QueueInv
  <1>5. Threads' = {t} /\ reads'[t] = fd /\ fds' = {fd}
    BY <1>3, <1>4 DEF Threads
  <1>6. vring' # NoRings
    BY <1>3 DEF RingsAt, NoRings
  <1>7. pending' \in SUBSET Fds
    BY <1>3 DEF QueueInv
  <1>8. ioEfd' \in Fds /\ ioThread' \in Fds /\ fds' = {ioEfd'} /\ Threads' = {ioThread'}
        /\ reads'[ioThread'] = ioEfd' /\ ioDone' = FALSE /\ enabled' = TRUE /\ main' = "idle"
        /\ registered' = TRUE
    BY <1>2, <1>3, <1>4, <1>5
  <1>9. Fds' = Fds
    BY DEF Fds
  <1>10. QueueInv'
    BY <1>6, <1>7, <1>8, <1>9 DEF QueueInv
  <1> QED
    BY <1>3, <1>8, <1>10

LEMMA ExitVqStep ==
    ASSUME QueueInv, main = "idle", NEW next \in {"join", "join_exit"}, exit_vq(next),
           UNCHANGED legacy, registered' \in BOOLEAN, enabled => registered'
    PROVE  /\ QueueInv'
           /\ UNCHANGED <<ioEfd, ioThread, fds, reads>>
           /\ enabled => UNCHANGED vqVars /\ main' = next
           /\ ~enabled => ~enabled' /\ vringAddr' = ZeroAddr /\ main' = "idle"
  <1> USE DEF Fds
  <1>1. CASE enabled
    <2>1. /\ ioDone' = TRUE /\ pending' = pending \cup {ioEfd} /\ main' = next
          /\ UNCHANGED <<vringAddr, vring, enabled, ioEfd, ioThread, fds, reads>>
      BY <1>1 DEF exit_vq, vqVars
    <2>2. Threads' = Threads
      BY <2>1 DEF Threads
    <2>3. QueueInv'
      BY <1>1, <2>1, <2>2 DEF QueueInv
    <2> QED
      BY <1>1, <2>1, <2>3 DEF vqVars
  <1>2. CASE ~enabled
    <2>1. /\ vringAddr' = ZeroAddr /\ vring' = NoRings /\ enabled' = FALSE /\ main' = "idle"
          /\ UNCHANGED <<ioDone, ioEfd, ioThread, fds, pending, reads>>
      BY <1>2 DEF exit_vq, Zeroed, blkVars
    <2>2. Threads' = Threads
      BY <2>1 DEF Threads
    <2>3. QueueInv'
      BY <1>2, <2>1, <2>2 DEF QueueInv
    <2> QED
      BY <1>2, <2>1, <2>3
  <1> QED
    BY <1>1, <1>2

LEMMA NotifyStep ==
    ASSUME QueueInv, ioEfd \in Fds, pending' = pending \cup {ioEfd},
           UNCHANGED <<legacy, vqVars, ioDone, ioEfd, ioThread, fds, reads, main, registered>>
    PROVE  QueueInv'
  BY DEF QueueInv, vqVars, Threads, Fds

LEMMA QueueStutters ==
    ASSUME QueueInv, UNCHANGED <<legacy, blkVars, main, registered, enabled, vring>>,
           legacy => vringAddr'.pfn = vringAddr.pfn
    PROVE  QueueInv'
  BY DEF QueueInv, blkVars, Threads, Fds

(***************************************************************************)
(* Steps of the device alone                                               *)
(***************************************************************************)

\* What the driver may rely on when the device works: the registers and its own
\* state stay; a queue is not enabled or moved; and between two accesses what
\* changes is that the device is gone.
Quiet ==
    /\ UNCHANGED <<hdrVars, drv, todo, seen, drvFeatures, drvRings, ioEfd>>
    /\ enabled' => enabled /\ vring' = vring
    /\ enabled' /\ main' = "idle" => main = "idle"
    /\ registered' => registered /\ (~enabled => vringAddr' = vringAddr)
    /\ main' = "join" => main = "join"
    /\ main' = "idle" /\ registered' => main = "join" \/ (main = "idle" /\ enabled' = enabled)
    /\ DOMAIN vringAddr' = DOMAIN vringAddr \/ vringAddr' = ZeroAddr
    /\ work' \in {work, FALSE}

LEMMA JoinedStep == ASSUME QueueInv, joined PROVE QueueInv' /\ Quiet
  <1>1. /\ main \in {"join", "join_exit"} /\ ioThread \notin Threads
        /\ main' = "idle" /\ fds' = fds \ {ioEfd}
        /\ vringAddr' = ZeroAddr /\ vring' = NoRings /\ enabled' = FALSE
        /\ registered' = (main = "join")
        /\ UNCHANGED <<hdrVars, ioDone, ioEfd, ioThread, pending, reads, drvVars>>
    BY DEF joined, Zeroed
  <1>2. enabled /\ registered
    BY <1>1 DEF QueueInv
  <1>3. Threads' = {} /\ fds' = {}
    BY <1>1, <1>2 DEF QueueInv, Threads
  <1>4. QueueInv'
    BY <1>1, <1>3 DEF QueueInv, Fds
  <1>5. Quiet
    BY <1>1, <1>2 DEF Quiet, drvVars
  <1> QED
    BY <1>4, <1>5

LEMMA RemovalStep == ASSUME QueueInv, virtio_mmio_exit PROVE QueueInv' /\ Quiet
  <1>1. /\ main = "idle" /\ registered /\ exit_vq("join_exit")
        /\ registered' = enabled
        /\ UNCHANGED <<hdrVars, drvVars>>
    BY DEF virtio_mmio_exit
  <1>2. UNCHANGED legacy /\ registered' \in BOOLEAN /\ (enabled => registered')
    BY <1>1 DEF hdrVars, QueueInv
  <1>3. /\ QueueInv'
        /\ UNCHANGED <<ioEfd, ioThread, fds, reads>>
        /\ enabled => UNCHANGED vqVars /\ main' = "join_exit"
        /\ ~enabled => ~enabled' /\ vringAddr' = ZeroAddr /\ main' = "idle"
    BY <1>1, <1>2, ExitVqStep
  <1>4. Quiet
    BY <1>1, <1>3 DEF Quiet, vqVars, drvVars
  <1> QED
    BY <1>3, <1>4

LEMMA ThreadStep ==
    ASSUME QueueInv, NEW t \in Threads, IoThread(t)
    PROVE  QueueInv' /\ Quiet
  <1> USE DEF Fds
  <1>0. enabled /\ t = ioThread /\ Threads = {ioThread} /\ ioThread \in Fds
    BY DEF QueueInv
  <1>1. CASE io_read(t)
    <2>1. /\ pending' = pending \ {reads[t]} /\ reads' = [reads EXCEPT ![t] = 0]
          /\ UNCHANGED <<hdrVars, vqVars, ioDone, ioEfd, ioThread, fds, main, registered, drvVars>>
      BY <1>1 DEF io_read
    <2>2. Threads' = Threads /\ reads'[t] = 0
      BY <2>1 DEF Threads
    <2>3. QueueInv'
      BY <1>0, <2>1, <2>2 DEF QueueInv, hdrVars, vqVars
    <2>4. Quiet
      BY <1>0, <2>1 DEF Quiet, vqVars, drvVars
    <2> QED
      BY <2>3, <2>4
  <1>2. CASE io_work(t)
    <2>0. UNCHANGED <<hdrVars, vqVars, ioDone, ioEfd, ioThread, fds, pending, main, registered,
                      drv, todo, seen, drvFeatures, drvRings>>
      BY <1>2 DEF io_work
    <2>1. CASE ioDone
      <3>1. reads' = [u \in Threads \ {t} |-> reads[u]] /\ work' = work
        BY <1>2, <2>1 DEF io_work
      <3>2. Threads' = {}
        BY <1>0, <3>1 DEF Threads
      <3>3. QueueInv'
        BY <1>0, <2>0, <2>1, <3>2 DEF QueueInv, hdrVars, vqVars
      <3> QED
        BY <1>0, <2>0, <3>1, <3>3 DEF Quiet, vqVars
    <2>2. CASE ~ioDone
      <3>1. reads' = [reads EXCEPT ![t] = ioEfd] /\ work' = FALSE
        BY <1>2, <2>2 DEF io_work
      <3>2. Threads' = Threads /\ reads'[t] = ioEfd
        BY <3>1 DEF Threads
      <3>3. QueueInv'
        BY <1>0, <2>0, <2>2, <3>2 DEF QueueInv, hdrVars, vqVars
      <3> QED
        BY <1>0, <2>0, <3>1, <3>3 DEF Quiet, vqVars
    <2> QED
      BY <2>1, <2>2
  <1> QED
    BY <1>1, <1>2 DEF IoThread

(***************************************************************************)
(* The accesses of a driver                                                *)
(***************************************************************************)

\* What a driver writes: bits of the status, features that were offered, and a
\* queue that is at rest is enabled, one that has an eventfd is notified.
Proper(a) ==
    \/ ~a.write
    \/ /\ a.write
       /\ \/ a.reg \in StoredRegs /\ (a.reg = "GUEST_PAGE_SIZE" => a.val = PageSize)
          \/ a.reg = "STATUS" /\ a.val \in SUBSET StatusBits
          \/ a.reg = "DRIVER_FEATURES" /\ (hdr.DRIVER_FEATURES_SEL = 0 => a.val \subseteq HostFeatures)
          \/ a.reg \in AddrRegs
          \/ a.reg = "QUEUE_NOTIFY" /\ ioEfd \in Fds
          \/ a.reg = QueueReg /\ a.val = 0
          \/ a.reg = QueueReg /\ a.val # 0 /\ ~enabled

LEMMA ReadProper == ASSUME NEW r PROVE Proper(Read(r))
  BY DEF Read, Proper

LEMMA StatusProper == ASSUME NEW v \in SUBSET StatusBits PROVE Proper(Write("STATUS", v))
  BY DEF Write, Proper

LEMMA StoredProper ==
    ASSUME NEW r \in StoredRegs, NEW v, r = "GUEST_PAGE_SIZE" => v = PageSize
    PROVE  Proper(Write(r, v))
  BY DEF Write, Proper

LEMMA AddrProper == ASSUME NEW r \in AddrRegs, NEW v PROVE Proper(Write(r, v))
  BY DEF Write, Proper

LEMMA AllProper ==
    /\ Proper(Write("STATUS", {})) /\ Proper(Write("STATUS", {"ACKNOWLEDGE"}))
    /\ Proper(Write("STATUS", {"ACKNOWLEDGE", "DRIVER"}))
    /\ Proper(Write("STATUS", {"ACKNOWLEDGE", "DRIVER", "FEATURES_OK"}))
    /\ Proper(Write("STATUS", Ok \cup {"DRIVER_OK"})) /\ Proper(Write("STATUS", Ok \cup {"FAILED"}))
    /\ \A v : /\ Proper(Write("DEVICE_FEATURES_SEL", v)) /\ Proper(Write("DRIVER_FEATURES_SEL", v))
              /\ Proper(Write("QUEUE_SEL", v)) /\ Proper(Write("QUEUE_NUM", v))
              /\ legacy => Proper(Write("QUEUE_ALIGN", v))
              /\ ~legacy => /\ Proper(Write("DESC_LOW", v)) /\ Proper(Write("DESC_HIGH", v))
                            /\ Proper(Write("AVAIL_LOW", v)) /\ Proper(Write("AVAIL_HIGH", v))
                            /\ Proper(Write("USED_LOW", v)) /\ Proper(Write("USED_HIGH", v))
    /\ legacy => Proper(Write("GUEST_PAGE_SIZE", PageSize))
    /\ \A r : Proper(Read(r))
    /\ Proper(Write(QueueReg, 0))
    /\ \A v : v # 0 /\ ~enabled => Proper(Write(QueueReg, v))
  <1>1. /\ {} \in SUBSET StatusBits /\ {"ACKNOWLEDGE"} \in SUBSET StatusBits
        /\ {"ACKNOWLEDGE", "DRIVER"} \in SUBSET StatusBits
        /\ {"ACKNOWLEDGE", "DRIVER", "FEATURES_OK"} \in SUBSET StatusBits
        /\ Ok \cup {"DRIVER_OK"} \in SUBSET StatusBits /\ Ok \cup {"FAILED"} \in SUBSET StatusBits
    BY DEF StatusBits, Ok
  <1>2. \A r \in StoredRegs : \A v : (r = "GUEST_PAGE_SIZE" => v = PageSize) => Proper(Write(r, v))
    BY StoredProper
  <1>3. \A r \in AddrRegs : \A v : Proper(Write(r, v))
    BY AddrProper
  <1>4. Proper(Write(QueueReg, 0)) /\ \A v : v # 0 /\ ~enabled => Proper(Write(QueueReg, v))
    BY DEF Proper, Write
  <1>5. \A v : /\ Proper(Write("DEVICE_FEATURES_SEL", v)) /\ Proper(Write("DRIVER_FEATURES_SEL", v))
               /\ Proper(Write("QUEUE_SEL", v)) /\ Proper(Write("QUEUE_NUM", v))
    BY <1>2 DEF StoredRegs
  <1>8. legacy => Proper(Write("GUEST_PAGE_SIZE", PageSize))
    BY <1>2 DEF StoredRegs
  <1>6. \A v : /\ legacy => Proper(Write("QUEUE_ALIGN", v))
               /\ ~legacy => /\ Proper(Write("DESC_LOW", v)) /\ Proper(Write("DESC_HIGH", v))
                             /\ Proper(Write("AVAIL_LOW", v)) /\ Proper(Write("AVAIL_HIGH", v))
                             /\ Proper(Write("USED_LOW", v)) /\ Proper(Write("USED_HIGH", v))
    BY <1>3 DEF AddrRegs
  <1>7. /\ Proper(Write("STATUS", {})) /\ Proper(Write("STATUS", {"ACKNOWLEDGE"}))
        /\ Proper(Write("STATUS", {"ACKNOWLEDGE", "DRIVER"}))
        /\ Proper(Write("STATUS", {"ACKNOWLEDGE", "DRIVER", "FEATURES_OK"}))
        /\ Proper(Write("STATUS", Ok \cup {"DRIVER_OK"}))
        /\ Proper(Write("STATUS", Ok \cup {"FAILED"}))
    BY <1>1, StatusProper, Zenon
  <1> QED
    BY <1>4, <1>5, <1>6, <1>7, <1>8, ReadProper

\* Every access of the lists that ask for nothing.
LEMMA ListsProper ==
    /\ \A k \in 1 .. Len(Identify) : Proper(Identify[k])
    /\ \A k \in 1 .. 5 : Proper(Negotiate[k])
    /\ \A k \in 1 .. 2 : Proper(FindQueue[k])
    /\ \A k \in 1 .. 3 : Proper(GiveUp[k])
    /\ \A k \in 1 .. 4 : Proper(Unbind[k])
  <1>1. \A k \in 1 .. Len(Identify) : Proper(Identify[k])
    <2>1. CASE legacy
      <3>1. Proper(Identify[1]) /\ Proper(Identify[2]) /\ Proper(Identify[3]) /\ Proper(Identify[4])
        BY <2>1, IdentifyList, AllProper, Zenon
      <3>2. Len(Identify) = 4
        BY <2>1, IdentifyList, Zenon
      <3> QED
        BY <3>1, <3>2
    <2>2. CASE ~legacy
      <3>1. Proper(Identify[1]) /\ Proper(Identify[2]) /\ Proper(Identify[3])
        BY <2>2, IdentifyList, AllProper, Zenon
      <3>2. Len(Identify) = 3
        BY <2>2, IdentifyList, Zenon
      <3> QED
        BY <3>1, <3>2
    <2> QED
      BY <2>1, <2>2
  <1>2. \A k \in 1 .. 5 : Proper(Negotiate[k])
    <2>1. Proper(Negotiate[1]) /\ Proper(Negotiate[2]) /\ Proper(Negotiate[3])
          /\ Proper(Negotiate[4]) /\ Proper(Negotiate[5])
      BY NegotiateList, AllProper, Zenon
    <2> QED
      BY <2>1
  <1>3. \A k \in 1 .. 2 : Proper(FindQueue[k])
    <2>1. Proper(FindQueue[1]) /\ Proper(FindQueue[2])
      BY FindQueueList, AllProper, Zenon
    <2> QED
      BY <2>1
  <1>4. \A k \in 1 .. 3 : Proper(GiveUp[k])
    <2>1. Proper(GiveUp[1]) /\ Proper(GiveUp[2]) /\ Proper(GiveUp[3])
      BY GiveUpList, AllProper, Zenon
    <2> QED
      BY <2>1
  <1>5. \A k \in 1 .. 4 : Proper(Unbind[k])
    <2>1. Proper(Unbind[1]) /\ Proper(Unbind[2]) /\ Proper(Unbind[3]) /\ Proper(Unbind[4])
      BY UnbindList, AllProper, Zenon
    <2> QED
      BY <2>1
  <1> QED
    BY <1>1, <1>2, <1>3, <1>4, <1>5

\* What the next access of a list is.
LEMMA NextOfList ==
    ASSUME NEW L, Len(L) \in Nat, Rest(todo, L), todo # <<>>, \A k \in 1 .. Len(L) : Proper(L[k])
    PROVE  Proper(Head(todo))
  <1>1. Len(todo) \in 1 .. Len(L) /\ Head(todo) = L[Len(L) - Len(todo) + 1]
    BY RestStep
  <1> QED
    BY <1>1

LEMMA NextProper ==
    ASSUME QueueInv, RegTypeOK, ScriptInv, RingsInv, todo # <<>>
    PROVE  Proper(Head(todo))
  <1>1. CASE drv \in {"probe", "negotiate", "queue", "failed", "removed"}
    <2>1. \/ Rest(todo, Identify) \/ Rest(todo, Negotiate) \/ Rest(todo, FindQueue)
          \/ Rest(todo, GiveUp) \/ Rest(todo, Unbind)
      BY <1>1 DEF ScriptInv, NegotiateInv, FindInv
    <2>2. /\ Len(Identify) \in Nat /\ Len(Negotiate) = 5 /\ Len(FindQueue) = 2 /\ Len(GiveUp) = 3
          /\ Len(Unbind) = 4
      BY IdentifyList, NegotiateList, FindQueueList, GiveUpList, UnbindList, Zenon
    <2>3. CASE Rest(todo, Identify)
      BY <2>2, <2>3, ListsProper, NextOfList
    <2>4. CASE Rest(todo, Negotiate)
      BY <2>2, <2>4, ListsProper, NextOfList
    <2>5. CASE Rest(todo, FindQueue)
      BY <2>2, <2>5, ListsProper, NextOfList
    <2>6. CASE Rest(todo, GiveUp)
      BY <2>2, <2>6, ListsProper, NextOfList
    <2>7. CASE Rest(todo, Unbind)
      BY <2>2, <2>7, ListsProper, NextOfList
    <2> QED
      BY <2>1, <2>3, <2>4, <2>5, <2>6, <2>7
  <1>3. CASE drv = "features"
    <2> DEFINE L == Accept(High, drvFeatures)
               k == Len(L) - Len(todo) + 1
    <2>1. Rest(todo, L) /\ (k = 2 => hdr.DRIVER_FEATURES_SEL = 1)
      BY <1>3, AcceptList, RestLen DEF ScriptInv, FeaturesInv
    <2>2. k \in 1 .. Len(L) /\ Head(todo) = L[k]
      BY <2>1, AcceptList, RestStep
    <2>3. Proper(Write("DRIVER_FEATURES", drvFeatures))
      BY DEF Write, Proper, RegTypeOK
    <2>4. k = 2 => Proper(Write("DRIVER_FEATURES", High))
      BY <2>1 DEF Write, Proper
    <2> HIDE DEF k
    <2>5. /\ Proper(L[1]) /\ (k = 2 => Proper(L[2])) /\ Proper(L[3]) /\ Proper(L[4])
          /\ ~legacy => Proper(L[5]) /\ Proper(L[6])
      <3>1. L[1] = Write("DRIVER_FEATURES_SEL", 1) /\ L[3] = Write("DRIVER_FEATURES_SEL", 0)
        BY AcceptList
      <3>2. L[2] = Write("DRIVER_FEATURES", High) /\ L[4] = Write("DRIVER_FEATURES", drvFeatures)
        BY AcceptList
      <3>3. ~legacy => /\ L[5] = Write("STATUS", {"ACKNOWLEDGE", "DRIVER", "FEATURES_OK"})
                       /\ L[6] = Read("STATUS")
        BY AcceptList
      <3> HIDE DEF L
      <3> QED
        BY <2>3, <2>4, <3>1, <3>2, <3>3, AllProper, Zenon
    <2>6. Len(L) = IF legacy THEN 4 ELSE 6
      BY AcceptList
    <2> HIDE DEF L
    <2> QED
      BY <2>2, <2>5, <2>6
  <1>5. CASE drv = "ready"
    <2>1. PICK a \in Addrs : SetUpInv(a)
      BY <1>5 DEF ScriptInv
    <2> DEFINE L == SetUp(a)
    <2>2. Rest(todo, L) /\ ~enabled
      BY <2>1 DEF SetUpInv
    <2>0. Len(L) = IF legacy THEN 6 ELSE 11
      BY SetUpList
    <2>4. a # 0 /\ 1 # 0
      BY MmioAssumption
    <2>5. Proper(Write(QueueReg, a)) /\ Proper(Write(QueueReg, 1))
      BY <2>2, <2>4, AllProper, Zenon
    <2>8. Proper(L[1]) /\ Proper(L[2]) /\ Proper(L[3]) /\ Proper(L[4])
      <3>1. /\ L[1] = Read("CONFIG_LOW") /\ L[2] = Read("CONFIG_HIGH")
            /\ L[3] = Read("QUEUE_NUM_MAX") /\ L[4] = Write("QUEUE_NUM", QueueSize)
        BY SetUpList
      <3> HIDE DEF L
      <3> QED
        BY <3>1, AllProper, Zenon
    <2>6. CASE legacy
      <3>1. L[5] = Write("QUEUE_ALIGN", PageSize) /\ L[6] = Write("QUEUE_PFN", a)
        BY <2>6, SetUpList
      <3> HIDE DEF L
      <3>2. Proper(L[5]) /\ Proper(L[6])
        BY <2>5, <2>6, <3>1, AllProper, Zenon DEF QueueReg
      <3>3. \A k \in 1 .. 6 : Proper(L[k])
        BY <2>8, <3>2
      <3>4. Len(L) = 6
        BY <2>0, <2>6
      <3> QED
        BY <2>2, <3>3, <3>4, NextOfList
    <2>7. CASE ~legacy
      <3>1. /\ L[5] = Write("DESC_LOW", a % Word) /\ L[6] = Write("DESC_HIGH", a \div Word)
            /\ L[7] = Write("AVAIL_LOW", (a + 1) % Word)
            /\ L[8] = Write("AVAIL_HIGH", (a + 1) \div Word)
            /\ L[9] = Write("USED_LOW", (a + 2) % Word)
            /\ L[10] = Write("USED_HIGH", (a + 2) \div Word) /\ L[11] = Write("QUEUE_READY", 1)
        BY <2>7, SetUpList
      <3> HIDE DEF L
      <3>2. /\ Proper(L[5]) /\ Proper(L[6]) /\ Proper(L[7]) /\ Proper(L[8])
            /\ Proper(L[9]) /\ Proper(L[10]) /\ Proper(L[11])
        BY <2>5, <2>7, <3>1, AllProper, Zenon DEF QueueReg
      <3>3. \A k \in 1 .. 11 : Proper(L[k])
        BY <2>8, <3>2
      <3>4. Len(L) = 11
        BY <2>0, <2>7
      <3> QED
        BY <2>2, <3>3, <3>4, NextOfList
    <2> QED
      BY <2>6, <2>7
  <1>6. CASE drv = "bound"
    <2>1. todo \in {Bound, Kick} /\ ioEfd \in Fds
      BY <1>6 DEF ScriptInv, RingsInv
    <2>2. Proper(Write("QUEUE_NOTIFY", 0))
      BY <2>1 DEF Proper, Write
    <2>3. Head(todo) \in {Write("STATUS", Ok \cup {"DRIVER_OK"}), Write("QUEUE_NOTIFY", 0)}
      BY <2>1 DEF Bound, Kick
    <2> QED
      BY <2>2, <2>3, AllProper, Zenon
  <1> QED
    BY <1>1, <1>3, <1>5, <1>6 DEF ScriptInv

\* The layout of the registers does not change.
LEMMA LayoutStays ==
    ASSUME UNCHANGED legacy
    PROVE  /\ StoredRegs' = StoredRegs /\ AddrRegs' = AddrRegs /\ ZeroAddr' = ZeroAddr
           /\ QueueReg' = QueueReg /\ High' = High /\ Identify' = Identify /\ GiveUp' = GiveUp
           /\ Unbind' = Unbind /\ Bound' = Bound /\ Ok' = Ok
           /\ \A high, fs : Accept(high, fs)' = Accept(high, fs)
           /\ \A a : SetUp(a)' = SetUp(a)
  <1>1. StoredRegs' = StoredRegs /\ AddrRegs' = AddrRegs /\ QueueReg' = QueueReg
    BY DEF StoredRegs, AddrRegs, QueueReg
  <1>2. High' = High /\ Ok' = Ok /\ Identify' = Identify
    BY DEF High, Ok, Identify
  <1>3. ZeroAddr' = ZeroAddr
    BY <1>1 DEF ZeroAddr
  <1>4. GiveUp' = GiveUp /\ Unbind' = Unbind /\ Bound' = Bound
    BY <1>1, <1>2 DEF GiveUp, Unbind, Bound
  <1>5. /\ \A high, fs : Accept(high, fs)' = Accept(high, fs)
        /\ \A a : SetUp(a)' = SetUp(a)
    BY DEF Accept, SetUp
  <1> QED
    BY <1>1, <1>2, <1>3, <1>4, <1>5

LEMMA QuietTypes == ASSUME RegTypeOK, Quiet PROVE RegTypeOK'
  <1>1. StoredRegs' = StoredRegs /\ ZeroAddr' = ZeroAddr
    BY LayoutStays DEF Quiet, hdrVars
  <1> QED
    BY <1>1 DEF Quiet, RegTypeOK, hdrVars

\* virtio_notify_status leaves the queue in order.
LEMMA StatusStep ==
    ASSUME QueueInv, RegTypeOK, main = "idle", registered, NEW v, virtio_notify_status(v),
           UNCHANGED <<legacy, registered>>
    PROVE  /\ QueueInv' /\ status' = v /\ start' \in BOOLEAN
           /\ UNCHANGED <<ioEfd, ioThread, fds, reads>>
           /\ vringAddr' \in {vringAddr, ZeroAddr}
           /\ enabled' => enabled /\ UNCHANGED vqVars
           /\ v # {} => UNCHANGED <<main, vqVars, blkVars>>
           /\ v = {} => start' = FALSE /\ (start => main' = "join" \/ ~enabled')
           /\ v = {} /\ ~start => UNCHANGED <<main, vqVars, blkVars>>
           /\ "DRIVER_OK" \in v => start' = TRUE
           /\ v # {} /\ "DRIVER_OK" \notin v => start' = start
  <1>1. CASE "DRIVER_OK" \in v
    <2>1. start' = TRUE /\ status' = v /\ UNCHANGED <<main, vqVars, blkVars>>
      BY <1>1 DEF virtio_notify_status
    <2>2. QueueInv'
      BY <2>1, QueueStutters DEF vqVars
    <2> QED
      BY <1>1, <2>1, <2>2 DEF vqVars, blkVars
  <1>2. CASE v = {} /\ start
    <2>1. start' = FALSE /\ status' = v /\ exit_vq("join")
      BY <1>2 DEF virtio_notify_status
    <2>2. /\ QueueInv'
          /\ UNCHANGED <<ioEfd, ioThread, fds, reads>>
          /\ enabled => UNCHANGED vqVars /\ main' = "join"
          /\ ~enabled => ~enabled' /\ vringAddr' = ZeroAddr /\ main' = "idle"
      BY <2>1, ExitVqStep DEF QueueInv
    <2> QED
      BY <1>2, <2>1, <2>2 DEF vqVars
  <1>3. CASE ~ (v = {} /\ start) /\ "DRIVER_OK" \notin v
    <2>1. status' = v /\ UNCHANGED <<start, main, vqVars, blkVars>>
      BY <1>3 DEF virtio_notify_status
    <2>2. QueueInv'
      BY <2>1, QueueStutters DEF vqVars
    <2> QED
      BY <1>3, <2>1, <2>2 DEF vqVars, blkVars, RegTypeOK
  <1> QED
    BY <1>1, <1>2, <1>3

\* Every proper access leaves the queue and the registers in order.
LEMMA AccessStep ==
    ASSUME QueueInv, RegTypeOK, Proper(Head(todo)), access
    PROVE  /\ QueueInv' /\ RegTypeOK' /\ UNCHANGED legacy
           /\ features \subseteq features'
           /\ legacy /\ hdr.GUEST_PAGE_SIZE = PageSize => hdr'.GUEST_PAGE_SIZE = PageSize
           /\ enabled' /\ ~enabled =>
                  Head(todo).write /\ Head(todo).reg = QueueReg /\ Head(todo).val # 0
  <1> DEFINE a == Head(todo)
  <1> HIDE DEF a
  <1>1. /\ main = "idle" /\ registered
        /\ a.write => config_out(a.reg, a.val)
        /\ ~a.write => UNCHANGED devVars
        /\ UNCHANGED <<drvFeatures, work>>
    BY DEF access, a
  <1>2. Proper(a)
    BY DEF a
  <1>3. CASE ~a.write
    <2>1. UNCHANGED devVars
      BY <1>1, <1>3
    <2>2. QueueInv'
      BY <2>1, QueueStutters DEF devVars, hdrVars, vqVars
    <2>3. StoredRegs' = StoredRegs /\ ZeroAddr' = ZeroAddr
      BY <2>1, LayoutStays DEF devVars, hdrVars
    <2> QED
      BY <1>1, <2>1, <2>2, <2>3 DEF RegTypeOK, devVars, hdrVars, vqVars
  <1>4. CASE a.write
    <2>0. UNCHANGED legacy /\ UNCHANGED registered
      BY <1>1, <1>4 DEF config_out
    <2>1. StoredRegs' = StoredRegs /\ ZeroAddr' = ZeroAddr
      BY <2>0, LayoutStays
    <2>2. CASE a.reg \in StoredRegs /\ (a.reg = "GUEST_PAGE_SIZE" => a.val = PageSize)
      <3>1. /\ hdr' = [hdr EXCEPT ![a.reg] = a.val]
            /\ UNCHANGED <<status, start, features, vqVars, blkVars, main>>
        BY <1>1, <1>4, <2>2, StoredWritten
      <3>2. QueueInv'
        BY <2>0, <3>1, QueueStutters DEF vqVars
      <3> QED
        BY <1>1, <2>0, <2>1, <2>2, <3>1, <3>2 DEF RegTypeOK, vqVars
    <2>3. CASE a.reg = "STATUS" /\ a.val \in SUBSET StatusBits
      <3>1. virtio_notify_status(a.val) /\ UNCHANGED <<hdr, features>>
        BY <1>1, <1>4, <2>3, StatusWritten
      <3>2. /\ QueueInv' /\ status' = a.val /\ start' \in BOOLEAN
            /\ vringAddr' \in {vringAddr, ZeroAddr} /\ (enabled' => enabled)
        BY <1>1, <2>0, <3>1, StatusStep
      <3> QED
        BY <1>1, <2>0, <2>1, <2>3, <3>1, <3>2 DEF RegTypeOK
    <2>4. CASE /\ a.reg = "DRIVER_FEATURES"
               /\ hdr.DRIVER_FEATURES_SEL = 0 => a.val \subseteq HostFeatures
      <3>1. /\ features' = IF hdr.DRIVER_FEATURES_SEL = 0 THEN features \cup a.val ELSE features
            /\ UNCHANGED <<hdr, status, start, vqVars, blkVars, main>>
        BY <1>1, <1>4, <2>4, FeaturesWritten
      <3>2. QueueInv'
        BY <2>0, <3>1, QueueStutters DEF vqVars
      <3> QED
        BY <1>1, <2>0, <2>1, <2>4, <3>1, <3>2 DEF RegTypeOK, vqVars
    <2>5. CASE a.reg \in AddrRegs
      <3>1. /\ vringAddr' = [vringAddr EXCEPT ![a.reg] = a.val]
            /\ UNCHANGED <<hdr, status, start, features, vring, enabled, blkVars, main>>
        BY <1>1, <1>4, <2>5, AddrWritten
      <3>2. legacy => a.reg = "QUEUE_ALIGN"
        BY <2>5 DEF AddrRegs
      <3>3. legacy => vringAddr'.pfn = vringAddr.pfn
        BY <3>1, <3>2 DEF RegTypeOK, ZeroAddr
      <3>4. QueueInv'
        BY <2>0, <3>1, <3>3, QueueStutters
      <3> QED
        BY <1>1, <2>0, <2>1, <3>1, <3>4 DEF RegTypeOK
    <2>6. CASE a.reg = "QUEUE_NOTIFY" /\ ioEfd \in Fds
      <3>1. /\ pending' = pending \cup {ioEfd}
            /\ UNCHANGED <<hdrVars, vqVars, ioDone, ioEfd, ioThread, fds, reads, main>>
        BY <1>1, <1>4, <2>6, NotifyWritten
      <3>2. QueueInv'
        BY <2>0, <2>6, <3>1, NotifyStep
      <3> QED
        BY <1>1, <2>0, <2>1, <3>1, <3>2 DEF RegTypeOK, hdrVars, vqVars
    <2>7. CASE a.reg = QueueReg /\ a.val = 0
      <3>1. exit_vq("join") /\ UNCHANGED hdrVars
        BY <1>1, <1>4, <2>7, QueueDisabled
      <3>2. QueueInv' /\ vringAddr' \in {vringAddr, ZeroAddr} /\ (enabled' => enabled)
        BY <1>1, <2>0, <3>1, ExitVqStep DEF QueueInv, vqVars
      <3> QED
        BY <1>1, <2>0, <2>1, <3>1, <3>2 DEF RegTypeOK, hdrVars
    <2>8. CASE a.reg = QueueReg /\ a.val # 0 /\ ~enabled
      <3>1. /\ init_vq /\ UNCHANGED <<hdrVars, main>>
            /\ legacy => vringAddr' = [vringAddr EXCEPT !.pfn = a.val,
                                                       !.pgsize = hdr.GUEST_PAGE_SIZE]
            /\ ~legacy => vringAddr' = vringAddr
        BY <1>1, <1>4, <2>8, QueueEnabled
      <3>2. legacy => vringAddr'.pfn # 0
        BY <2>8, <3>1 DEF RegTypeOK, ZeroAddr
      <3>3. QueueInv'
        BY <1>1, <2>0, <2>8, <3>1, <3>2, InitVqStep
      <3> QED
        BY <1>1, <1>4, <2>0, <2>1, <2>8, <3>1, <3>3 DEF RegTypeOK, hdrVars, a
    <2> QED
      BY <1>2, <1>4, <2>2, <2>3, <2>4, <2>5, <2>6, <2>7, <2>8 DEF Proper
  <1> QED
    BY <1>3, <1>4

(***************************************************************************)
(* The driver's lists                                                      *)
(***************************************************************************)

\* A step of the device alone disturbs no driver.
LEMMA QuietScript ==
    ASSUME QueueInv, RegTypeOK, ScriptInv, RingsInv, Quiet
    PROVE  ScriptInv' /\ RingsInv' /\ (IdleInv => IdleInv')
  <1>0. /\ UNCHANGED <<hdr, status, legacy, start, features, drv, todo, seen, drvFeatures, drvRings,
                       ioEfd>>
        /\ enabled' => enabled /\ vring' = vring
        /\ enabled' /\ main' = "idle" => main = "idle"
        /\ registered' => registered /\ (~enabled => vringAddr' = vringAddr)
        /\ main' = "join" => main = "join"
        /\ main' = "idle" /\ registered' => main = "join" \/ (main = "idle" /\ enabled' = enabled)
    BY DEF Quiet, hdrVars
  <1>1. /\ High' = High /\ Identify' = Identify /\ GiveUp' = GiveUp
        /\ Unbind' = Unbind /\ Bound' = Bound
        /\ Accept(High, drvFeatures)' = Accept(High, drvFeatures)
        /\ \A a : SetUp(a)' = SetUp(a)
        /\ \A a : RingsOf(a)' = RingsOf(a)
        /\ FindQueue' = FindQueue
    BY <1>0, LayoutStays DEF RingsOf, Accept, FindQueue, QueueReg
  <1>2. NegotiateInv => NegotiateInv'
    BY <1>0, <1>1 DEF NegotiateInv, Negotiate, Rest
  <1>3. FeaturesInv => FeaturesInv'
    BY <1>0, <1>1 DEF FeaturesInv, Rest
  <1>4. FindInv => FindInv'
    BY <1>0, <1>1 DEF FindInv, Rest
  <1>5. ASSUME NEW a \in Addrs, SetUpInv(a) PROVE SetUpInv(a)'
    <2> DEFINE done == Len(SetUp(a)) - Len(todo)
    <2>1. done' = done /\ SetUp(a)' = SetUp(a) /\ Told' = Told
      BY <1>0, <1>1 DEF Told
    <2>2. Rest(todo', SetUp(a)') /\ drvRings' = RingsOf(a)'
      BY <1>0, <1>1, <1>5 DEF SetUpInv
    <2>3. ASSUME todo' # <<>>, registered'
          PROVE  ~enabled' /\ HalvesSet(vringAddr, a, done)'
      <3>1. ~enabled /\ vringAddr' = vringAddr /\ HalvesSet(vringAddr, a, done)
        BY <1>0, <1>5, <2>3 DEF SetUpInv
      <3> HIDE DEF done
      <3> QED
        BY <1>0, <2>1, <3>1 DEF HalvesSet
    <2>4. todo' # <<>> => ~enabled'
      BY <1>0, <1>5 DEF SetUpInv
    <2>5. /\ done = 0 => seen = <<>>
          /\ done = 1 => seen = <<Capacity % Word>>
          /\ done = 2 => seen = <<Capacity % Word, Capacity \div Word>>
          /\ done >= 3 => seen = Told
      BY <1>5 DEF SetUpInv
    <2> HIDE DEF done
    <2>6. /\ done' = 0 => seen' = <<>>
          /\ done' = 1 => seen' = <<Capacity % Word>>
          /\ done' = 2 => seen' = <<Capacity % Word, Capacity \div Word>>
          /\ done' >= 3 => seen' = Told'
      BY <1>0, <2>1, <2>5
    <2> QED
      BY <2>2, <2>3, <2>4, <2>6 DEF SetUpInv, done, Rest
  <1>6. ScriptInv'
    BY <1>0, <1>1, <1>2, <1>3, <1>4, <1>5 DEF ScriptInv, Rest, Told, Kick
  <1>7. RingsInv'
    BY <1>0 DEF RingsInv, Fds
  <1>8. IdleInv => IdleInv'
    BY <1>0 DEF IdleInv
  <1> QED
    BY <1>6, <1>7, <1>8

\* An access takes the head of the list.
LEMMA AccessTakes ==
    ASSUME access
    PROVE  /\ todo # <<>> /\ todo' = Tail(todo) /\ main = "idle" /\ registered
           /\ UNCHANGED <<registered, drv, drvFeatures, drvRings, work>>
           /\ \A r : Head(todo) = Read(r) => seen' = Append(seen, config_in(r)) /\ UNCHANGED devVars
           /\ \A r, v : Head(todo) = Write(r, v) => config_out(r, v) /\ seen' = seen
  <1>1. /\ todo # <<>> /\ todo' = Tail(todo) /\ main = "idle" /\ registered
        /\ UNCHANGED <<drv, drvFeatures, drvRings, work>>
    BY DEF access
  <1>2. ASSUME NEW r, Head(todo) = Read(r)
        PROVE  seen' = Append(seen, config_in(r)) /\ UNCHANGED devVars
    BY <1>2, Fields DEF access
  <1>3. ASSUME NEW r, NEW v, Head(todo) = Write(r, v)
        PROVE  config_out(r, v) /\ seen' = seen
    BY <1>3, Fields DEF access
  <1>4. UNCHANGED registered
    BY DEF access, config_out, devVars
  <1> QED
    BY <1>1, <1>2, <1>3, <1>4

LEMMA Appended ==
    /\ \A x : Append(<<>>, x) = <<x>>
    /\ \A x, y : Append(<<x>>, y) = <<x, y>>
    /\ \A x, y, z : Append(<<x, y>>, z) = <<x, y, z>>
  <1>1. \A x : Append(<<>>, x) = <<x>>
    OBVIOUS
  <1>2. ASSUME NEW x, NEW y PROVE Append(<<x>>, y) = <<x, y>>
    <2> DEFINE S == {x, y}
               s == Append(<<x>>, y)
               t == <<x, y>>
    <2>1. <<x>> \in Seq(S) /\ y \in S /\ Len(<<x>>) = 1 /\ <<x>>[1] = x
      OBVIOUS
    <2>2. t \in Seq(S) /\ Len(t) = 2 /\ t[1] = x /\ t[2] = y
      OBVIOUS
    <2> HIDE DEF S
    <2>3. s \in Seq(S) /\ Len(s) = 2 /\ s[1] = x /\ s[2] = y
      BY <2>1, AppendProperties
    <2> HIDE DEF s, t
    <2>4. s = t
      BY <2>2, <2>3, SeqEqual
    <2> QED
      BY <2>4 DEF s, t
  <1>3. ASSUME NEW x, NEW y, NEW z PROVE Append(<<x, y>>, z) = <<x, y, z>>
    <2> DEFINE S == {x, y, z}
               s == Append(<<x, y>>, z)
               t == <<x, y, z>>
    <2>1. <<x, y>> \in Seq(S) /\ z \in S /\ Len(<<x, y>>) = 2 /\ <<x, y>>[1] = x /\ <<x, y>>[2] = y
      OBVIOUS
    <2>2. t \in Seq(S) /\ Len(t) = 3 /\ t[1] = x /\ t[2] = y /\ t[3] = z
      OBVIOUS
    <2> HIDE DEF S
    <2>3. s \in Seq(S) /\ Len(s) = 3 /\ s[1] = x /\ s[2] = y /\ s[3] = z
      BY <2>1, AppendProperties
    <2> HIDE DEF s, t
    <2>4. s = t
      BY <2>2, <2>3, SeqEqual
    <2> QED
      BY <2>4 DEF s, t
  <1> QED
    BY <1>1, <1>2, <1>3

\* What the driver reads through the windows of the features.
LEMMA WindowsRead ==
    /\ hdr.DEVICE_FEATURES_SEL = 1 => config_in("DEVICE_FEATURES") = High
    /\ hdr.DEVICE_FEATURES_SEL = 0 => config_in("DEVICE_FEATURES") = HostFeatures
  <1>1. DeviceFeatures({}) = IF hdr.DEVICE_FEATURES_SEL = 0 THEN HostFeatures ELSE {}
    BY DEF DeviceFeatures
  <1>2. hdr.DEVICE_FEATURES_SEL = 0 => DeviceFeatures({"VERSION_1", "ACCESS_PLATFORM"}) = HostFeatures
    BY DEF DeviceFeatures
  <1>3. hdr.DEVICE_FEATURES_SEL = 1 =>
            DeviceFeatures({"VERSION_1", "ACCESS_PLATFORM"}) = {"VERSION_1", "ACCESS_PLATFORM"}
    BY DEF DeviceFeatures
  <1>4. config_in("DEVICE_FEATURES") =
            IF legacy THEN DeviceFeatures({}) ELSE DeviceFeatures({"VERSION_1", "ACCESS_PLATFORM"})
    BY DEF config_in, config_in_legacy, config_in_modern
  <1> QED
    BY <1>1, <1>2, <1>3, <1>4 DEF High

LEMMA ConfigRead ==
    /\ config_in("CONFIG_LOW") = Capacity % Word /\ config_in("CONFIG_HIGH") = Capacity \div Word
    /\ config_in("QUEUE_NUM_MAX") = QueueSize
    /\ config_in(QueueReg) = IF legacy THEN vringAddr.pfn ELSE IF enabled THEN 1 ELSE 0
  <1>1. config_in("CONFIG_LOW") = Capacity % Word /\ config_in("CONFIG_HIGH") = Capacity \div Word
    BY DEF config_in, virtio_read_config
  <1>2. config_in("QUEUE_NUM_MAX") = QueueSize
    BY DEF config_in, config_in_legacy, config_in_modern
  <1>3. config_in(QueueReg) = IF legacy THEN vringAddr.pfn ELSE IF enabled THEN 1 ELSE 0
    BY DEF config_in, config_in_legacy, config_in_modern, QueueReg
  <1> QED
    BY <1>1, <1>2, <1>3

LEMMA ProbeAccess ==
    ASSUME RegTypeOK, access, Rest(todo, Identify), UNCHANGED legacy,
           legacy /\ Len(todo) <= 2 => hdr.GUEST_PAGE_SIZE = PageSize,
           legacy /\ hdr.GUEST_PAGE_SIZE = PageSize => hdr'.GUEST_PAGE_SIZE = PageSize
    PROVE  /\ Rest(todo', Identify') /\ Len(todo') = Len(todo) - 1
           /\ legacy /\ Len(todo') <= 2 => hdr'.GUEST_PAGE_SIZE = PageSize
           /\ Len(todo) = 2 => Head(todo) = Write("STATUS", {})
           /\ Len(todo) = 1 => Head(todo) = Write("STATUS", {"ACKNOWLEDGE"})
           /\ Len(todo) \in {1, 2} \/ UNCHANGED <<enabled, start, main>>
  <1>1. todo # <<>> /\ todo' = Tail(todo)
    BY AccessTakes
  <1>2. Len(Identify) \in Nat
    BY IdentifyList
  <1>3. /\ Len(todo) \in 1 .. Len(Identify) /\ Head(todo) = Identify[Len(Identify) - Len(todo) + 1]
        /\ Rest(Tail(todo), Identify) /\ Len(Tail(todo)) = Len(todo) - 1
    BY <1>1, <1>2, RestStep
  <1>4. Identify' = Identify
    BY LayoutStays
  <1>5. CASE legacy
    <2>1. /\ Len(Identify) = 4 /\ Identify[1] = Read("VERSION")
          /\ Identify[2] = Write("GUEST_PAGE_SIZE", PageSize)
          /\ Identify[3] = Write("STATUS", {}) /\ Identify[4] = Write("STATUS", {"ACKNOWLEDGE"})
      BY <1>5, IdentifyList
    <2>2. CASE Len(todo) = 3
      <3>1. Head(todo) = Write("GUEST_PAGE_SIZE", PageSize)
        BY <1>3, <2>1, <2>2
      <3>2. config_out("GUEST_PAGE_SIZE", PageSize) /\ "GUEST_PAGE_SIZE" \in StoredRegs
        BY <1>5, <3>1, AccessTakes DEF StoredRegs
      <3>3. hdr' = [hdr EXCEPT !["GUEST_PAGE_SIZE"] = PageSize] /\ UNCHANGED <<vqVars, start, main>>
        BY <3>2, StoredWritten
      <3>4. hdr'.GUEST_PAGE_SIZE = PageSize
        BY <3>2, <3>3 DEF RegTypeOK
      <3> QED
        BY <1>1, <1>3, <1>4, <2>2, <3>3, <3>4 DEF vqVars
    <2>3. CASE Len(todo) = 4
      <3>1. Head(todo) = Read("VERSION")
        BY <1>3, <2>1, <2>3
      <3>2. UNCHANGED devVars
        BY <3>1, AccessTakes
      <3> QED
        BY <1>1, <1>3, <1>4, <2>3, <3>2 DEF devVars, hdrVars, vqVars
    <2>4. CASE Len(todo) = 2
      BY <1>1, <1>3, <1>4, <1>5, <2>1, <2>4
    <2>5. CASE Len(todo) = 1
      BY <1>1, <1>3, <1>4, <1>5, <2>1, <2>5
    <2> QED
      BY <1>3, <2>1, <2>2, <2>3, <2>4, <2>5
  <1>6. CASE ~legacy
    <2>1. /\ Len(Identify) = 3 /\ Identify[1] = Read("VERSION")
          /\ Identify[2] = Write("STATUS", {}) /\ Identify[3] = Write("STATUS", {"ACKNOWLEDGE"})
      BY <1>6, IdentifyList
    <2>3. CASE Len(todo) = 3
      <3>1. Head(todo) = Read("VERSION")
        BY <1>3, <2>1, <2>3
      <3>2. UNCHANGED devVars
        BY <3>1, AccessTakes
      <3> QED
        BY <1>1, <1>3, <1>4, <1>6, <2>3, <3>2 DEF devVars, hdrVars, vqVars
    <2>4. CASE Len(todo) = 2
      BY <1>1, <1>3, <1>4, <1>6, <2>1, <2>4
    <2>5. CASE Len(todo) = 1
      BY <1>1, <1>3, <1>4, <1>6, <2>1, <2>5
    <2> QED
      BY <1>3, <2>1, <2>3, <2>4, <2>5
  <1> QED
    BY <1>5, <1>6

LEMMA NegotiateAccess ==
    ASSUME RegTypeOK, access, NegotiateInv, UNCHANGED legacy
    PROVE  NegotiateInv'
  <1>1. todo # <<>> /\ todo' = Tail(todo)
    BY AccessTakes
  <1>2. Rest(todo, Negotiate) /\ Len(Negotiate) = 5 /\ Len(Negotiate) \in Nat
    BY NegotiateList DEF NegotiateInv
  <1>3. /\ Len(todo) \in 1 .. Len(Negotiate)
        /\ Head(todo) = Negotiate[Len(Negotiate) - Len(todo) + 1]
        /\ Rest(Tail(todo), Negotiate) /\ Len(Tail(todo)) = Len(todo) - 1
    BY <1>1, <1>2, RestStep
  <1>4. Negotiate' = Negotiate /\ Rest(todo', Negotiate') /\ Len(todo') = Len(todo) - 1
    <2>1. Negotiate' = Negotiate
      BY DEF Negotiate
    <2> QED
      BY <1>1, <1>3, <2>1
  <1>5. High' = High
    BY LayoutStays
  <1>6. CASE Len(todo) = 5
    <2>1. Head(todo) = Write("STATUS", {"ACKNOWLEDGE", "DRIVER"})
      BY <1>3, <1>6, NegotiateList
    <2>2. seen' = seen
      BY <2>1, AccessTakes
    <2> QED
      BY <1>4, <1>6, <2>2 DEF NegotiateInv
  <1>7. CASE Len(todo) = 4
    <2>1. Head(todo) = Write("DEVICE_FEATURES_SEL", 1)
      BY <1>3, <1>7, NegotiateList
    <2>2. seen' = seen /\ hdr' = [hdr EXCEPT !["DEVICE_FEATURES_SEL"] = 1]
      BY <2>1, AccessTakes, StoredWritten, Registers
    <2>3. hdr'.DEVICE_FEATURES_SEL = 1
      BY <2>2, Registers DEF RegTypeOK
    <2> QED
      BY <1>4, <1>7, <2>2, <2>3 DEF NegotiateInv
  <1>8. CASE Len(todo) = 3
    <2>1. Head(todo) = Read("DEVICE_FEATURES")
      BY <1>3, <1>8, NegotiateList
    <2>2. seen' = Append(seen, High)
      BY <1>8, <2>1, AccessTakes, WindowsRead DEF NegotiateInv
    <2>3. seen' = <<High>>
      BY <1>8, <2>2 DEF NegotiateInv
    <2> QED
      BY <1>4, <1>5, <1>8, <2>3 DEF NegotiateInv
  <1>9. CASE Len(todo) = 2
    <2>1. Head(todo) = Write("DEVICE_FEATURES_SEL", 0)
      BY <1>3, <1>9, NegotiateList
    <2>2. seen' = seen /\ hdr' = [hdr EXCEPT !["DEVICE_FEATURES_SEL"] = 0]
      BY <2>1, AccessTakes, StoredWritten, Registers
    <2>3. hdr'.DEVICE_FEATURES_SEL = 0
      BY <2>2, Registers DEF RegTypeOK
    <2> QED
      BY <1>4, <1>5, <1>9, <2>2, <2>3 DEF NegotiateInv
  <1>10. CASE Len(todo) = 1
    <2>1. Head(todo) = Read("DEVICE_FEATURES")
      BY <1>3, <1>10, NegotiateList
    <2>2. seen' = Append(seen, HostFeatures)
      BY <1>10, <2>1, AccessTakes, WindowsRead DEF NegotiateInv
    <2>3. seen' = <<High, HostFeatures>>
      BY <1>10, <2>2, Appended DEF NegotiateInv
    <2> QED
      BY <1>4, <1>5, <1>10, <2>3 DEF NegotiateInv
  <1> QED
    BY <1>2, <1>3, <1>6, <1>7, <1>8, <1>9, <1>10

LEMMA FeaturesAccess ==
    ASSUME RegTypeOK, access, FeaturesInv, UNCHANGED legacy, features \subseteq features'
    PROVE  FeaturesInv'
  <1> DEFINE L == Accept(High, drvFeatures)
  <1>1. todo # <<>> /\ todo' = Tail(todo) /\ drvFeatures' = drvFeatures
    BY AccessTakes
  <1>2. Rest(todo, L) /\ Len(L) = (IF legacy THEN 4 ELSE 6) /\ Len(L) \in Nat
    BY AcceptList DEF FeaturesInv
  <1>3. /\ L[1] = Write("DRIVER_FEATURES_SEL", 1) /\ L[2] = Write("DRIVER_FEATURES", High)
        /\ L[3] = Write("DRIVER_FEATURES_SEL", 0) /\ L[4] = Write("DRIVER_FEATURES", drvFeatures)
        /\ ~legacy => /\ L[5] = Write("STATUS", {"ACKNOWLEDGE", "DRIVER", "FEATURES_OK"})
                      /\ L[6] = Read("STATUS")
    BY AcceptList
  <1>4. L' = L
    BY <1>1, LayoutStays
  <1> DEFINE done == Len(L) - Len(todo)
  <1>5. /\ done \in {1, 2} => hdr.DRIVER_FEATURES_SEL = 1
        /\ done = 3 => hdr.DRIVER_FEATURES_SEL = 0
        /\ done >= 4 => drvFeatures \subseteq features
    BY DEF FeaturesInv
  <1> SUFFICES /\ Rest(todo', L')
               /\ done' \in {1, 2} => hdr'.DRIVER_FEATURES_SEL = 1
               /\ done' = 3 => hdr'.DRIVER_FEATURES_SEL = 0
               /\ done' >= 4 => drvFeatures' \subseteq features'
    BY DEF FeaturesInv
  <1> HIDE DEF L
  <1>6. /\ Len(todo) \in 1 .. Len(L) /\ Head(todo) = L[Len(L) - Len(todo) + 1]
        /\ Rest(Tail(todo), L) /\ Len(Tail(todo)) = Len(todo) - 1
    BY <1>1, <1>2, RestStep
  <1>7. done \in Nat /\ done < Len(L) /\ Head(todo) = L[done + 1] /\ done' = done + 1
        /\ Rest(todo', L')
    <2>1. Len(L') = Len(L) /\ Len(todo') = Len(todo) - 1 /\ Rest(todo', L')
      BY <1>1, <1>4, <1>6
    <2>2. Len(L) \in Nat /\ Len(todo) \in 1 .. Len(L)
      BY <1>2, <1>6
    <2>3. done \in Nat /\ done < Len(L) /\ done' = done + 1
      BY <2>1, <2>2
    <2>4. Head(todo) = L[done + 1]
      BY <1>6
    <2> QED
      BY <2>1, <2>3, <2>4
  <1> HIDE DEF done
  <1>8. CASE done = 0
    <2>1. config_out("DRIVER_FEATURES_SEL", 1)
      BY <1>3, <1>7, <1>8, AccessTakes
    <2>2. hdr'.DRIVER_FEATURES_SEL = 1
      BY <2>1, StoredWritten, Registers DEF RegTypeOK
    <2> QED
      BY <1>7, <1>8, <2>2
  <1>9. CASE done = 1
    <2>1. config_out("DRIVER_FEATURES", High)
      BY <1>3, <1>7, <1>9, AccessTakes
    <2>2. hdr' = hdr
      BY <2>1, FeaturesWritten
    <2> QED
      BY <1>5, <1>7, <1>9, <2>2
  <1>10. CASE done = 2
    <2>1. config_out("DRIVER_FEATURES_SEL", 0)
      BY <1>3, <1>7, <1>10, AccessTakes
    <2>2. hdr'.DRIVER_FEATURES_SEL = 0
      BY <2>1, StoredWritten, Registers DEF RegTypeOK
    <2> QED
      BY <1>7, <1>10, <2>2
  <1>11. CASE done = 3
    <2>1. config_out("DRIVER_FEATURES", drvFeatures)
      BY <1>3, <1>7, <1>11, AccessTakes
    <2>2. features' = features \cup drvFeatures
      BY <1>5, <1>11, <2>1, FeaturesWritten
    <2> QED
      BY <1>1, <1>7, <1>11, <2>2
  <1>12. CASE done >= 4
    BY <1>1, <1>5, <1>7, <1>12
  <1> QED
    BY <1>7, <1>8, <1>9, <1>10, <1>11, <1>12

LEMMA FindAccess ==
    ASSUME QueueInv, access, FindInv, UNCHANGED legacy
    PROVE  FindInv' /\ (enabled' => enabled)
  <1> DEFINE L == FindQueue
  <1>1. todo # <<>> /\ todo' = Tail(todo) /\ seen = <<>>
    BY AccessTakes DEF FindInv
  <1>2. Rest(todo, L) /\ Len(L) = 2 /\ Len(L) \in Nat
    BY FindQueueList DEF FindInv
  <1>3. L[1] = Write("QUEUE_SEL", 0) /\ L[2] = Read(QueueReg)
    BY FindQueueList
  <1>4. L' = L
    BY LayoutStays DEF FindQueue
  <1> SUFFICES /\ Rest(todo', L')
               /\ todo' # <<>> => seen' = <<>>
               /\ todo' = <<>> => Len(seen') = 1 /\ (seen'[1] = 0 => ~enabled')
               /\ enabled' => enabled
    BY DEF FindInv
  <1> HIDE DEF L
  <1>5. /\ Len(todo) \in 1 .. Len(L) /\ Head(todo) = L[Len(L) - Len(todo) + 1]
        /\ Rest(Tail(todo), L) /\ Len(Tail(todo)) = Len(todo) - 1
    BY <1>1, <1>2, RestStep
  <1>6. Rest(todo', L') /\ (todo' = <<>> <=> Len(todo) = 1)
    BY <1>1, <1>2, <1>4, <1>5, RestLen
  <1>7. CASE Len(todo) = 2
    <2>1. Head(todo) = Write("QUEUE_SEL", 0)
      BY <1>2, <1>3, <1>5, <1>7
    <2>2. seen' = seen /\ UNCHANGED vqVars
      BY <2>1, AccessTakes, StoredWritten, Registers
    <2> QED
      BY <1>1, <1>6, <1>7, <2>2 DEF vqVars
  <1>8. CASE Len(todo) = 1
    <2>1. Head(todo) = Read(QueueReg)
      BY <1>2, <1>3, <1>5, <1>8
    <2>2. seen' = <<config_in(QueueReg)>> /\ UNCHANGED devVars
      BY <1>1, <2>1, AccessTakes, Appended
    <2>3. config_in(QueueReg) = 0 => ~enabled
      BY ConfigRead DEF QueueInv
    <2>4. Len(seen') = 1 /\ (seen'[1] = 0 => ~enabled)
      BY <2>2, <2>3
    <2> QED
      BY <1>6, <1>8, <2>2, <2>4 DEF devVars, vqVars
  <1> QED
    BY <1>2, <1>5, <1>7, <1>8

\* Two halves make the whole again.
LEMMA Halves == \A a, w \in Nat : w # 0 => (a \div w) * w + (a % w) = a
  <1> SUFFICES ASSUME NEW a \in Nat, NEW w \in Nat, w # 0
               PROVE  (a \div w) * w + (a % w) = a
    OBVIOUS
  <1>1. a = w * (a \div w) + (a % w)
    OBVIOUS
  <1>2. w * (a \div w) = (a \div w) * w
    OBVIOUS
  <1> QED
    BY <1>1, <1>2

\* The rings of addresses whose halves are all set are the driver's.
LEMMA RingsSet ==
    ASSUME NEW a \in Addrs, NEW va, HalvesSet(va, a, 10),
           legacy => va.pfn = a /\ va.pgsize = PageSize
    PROVE  RingsAt(va) = RingsOf(a)
  <1>1. a \in Nat /\ a + 1 \in Nat /\ a + 2 \in Nat
    BY MmioAssumption
  <1>2. CASE legacy
    BY <1>2 DEF RingsAt, RingsOf, HalvesSet
  <1>3. CASE ~legacy
    <2>1. /\ va.DESC_LOW = a % Word /\ va.DESC_HIGH = a \div Word
          /\ va.AVAIL_LOW = (a + 1) % Word /\ va.AVAIL_HIGH = (a + 1) \div Word
          /\ va.USED_LOW = (a + 2) % Word /\ va.USED_HIGH = (a + 2) \div Word
      BY <1>3 DEF HalvesSet
    <2>2. va.DESC_HIGH * Word + va.DESC_LOW = a
      <3>1. (a \div Word) * Word + (a % Word) = a
        BY <1>1, Halves, MmioAssumption
      <3> QED
        BY <2>1, <3>1, Zenon
    <2>3. va.AVAIL_HIGH * Word + va.AVAIL_LOW = a + 1
      <3>1. ((a + 1) \div Word) * Word + ((a + 1) % Word) = a + 1
        BY <1>1, Halves, MmioAssumption
      <3> QED
        BY <2>1, <3>1, Zenon
    <2>4. va.USED_HIGH * Word + va.USED_LOW = a + 2
      <3>1. ((a + 2) \div Word) * Word + ((a + 2) % Word) = a + 2
        BY <1>1, Halves, MmioAssumption
      <3> QED
        BY <2>1, <3>1, Zenon
    <2> QED
      BY <1>3, <2>2, <2>3, <2>4 DEF RingsAt, RingsOf
  <1> QED
    BY <1>2, <1>3

\* A half is written; the ones before it stay.
LEMMA HalfWritten ==
    ASSUME RegTypeOK, NEW a, NEW done \in 4 .. 9, legacy => done = 4, HalvesSet(vringAddr, a, done),
           NEW v, NEW r, r \in AddrRegs, vringAddr' = [vringAddr EXCEPT ![r] = v],
           legacy => r = "QUEUE_ALIGN" /\ v = PageSize,
           ~legacy => <<r, v>> = CASE done = 4 -> <<"DESC_LOW", a % Word>>
                                   [] done = 5 -> <<"DESC_HIGH", a \div Word>>
                                   [] done = 6 -> <<"AVAIL_LOW", (a + 1) % Word>>
                                   [] done = 7 -> <<"AVAIL_HIGH", (a + 1) \div Word>>
                                   [] done = 8 -> <<"USED_LOW", (a + 2) % Word>>
                                   [] done = 9 -> <<"USED_HIGH", (a + 2) \div Word>>
    PROVE  HalvesSet(vringAddr', a, done + 1)
  <1>1. \A s \in AddrRegs : vringAddr'[s] = IF s = r THEN v ELSE vringAddr[s]
    BY DEF RegTypeOK, ZeroAddr
  <1>2. CASE legacy
    BY <1>1, <1>2 DEF HalvesSet, AddrRegs
  <1>3. CASE ~legacy
    <2>1. AddrRegs = {"DESC_LOW", "DESC_HIGH", "AVAIL_LOW", "AVAIL_HIGH", "USED_LOW", "USED_HIGH"}
      BY <1>3 DEF AddrRegs
    <2>2. CASE done = 4
      BY <1>1, <1>3, <2>1, <2>2 DEF HalvesSet
    <2>3. CASE done = 5
      BY <1>1, <1>3, <2>1, <2>3 DEF HalvesSet
    <2>4. CASE done = 6
      BY <1>1, <1>3, <2>1, <2>4 DEF HalvesSet
    <2>5. CASE done = 7
      BY <1>1, <1>3, <2>1, <2>5 DEF HalvesSet
    <2>6. CASE done = 8
      BY <1>1, <1>3, <2>1, <2>6 DEF HalvesSet
    <2>7. CASE done = 9
      BY <1>1, <1>3, <2>1, <2>7 DEF HalvesSet
    <2> QED
      BY <2>2, <2>3, <2>4, <2>5, <2>6, <2>7
  <1> QED
    BY <1>2, <1>3

\* The driver reads what the device is, writes where its rings are, and enables the
\* queue, which then has those rings.
LEMMA SetUpAccess ==
    ASSUME QueueInv, RegTypeOK, access, NEW a \in Addrs, SetUpInv(a), UNCHANGED legacy,
           legacy => hdr.GUEST_PAGE_SIZE = PageSize
    PROVE  /\ SetUpInv(a)'
           /\ todo' = <<>> => /\ enabled' /\ ioEfd' \in Fds /\ main' = "idle"
                              /\ vring' = drvRings'
  <1> DEFINE L == SetUp(a)
             done == Len(L) - Len(todo)
             Seen(d, s) == /\ d = 0 => s = <<>>
                           /\ d = 1 => s = <<Capacity % Word>>
                           /\ d = 2 => s = <<Capacity % Word, Capacity \div Word>>
                           /\ d >= 3 => s = Told
  <1>1. /\ todo # <<>> /\ todo' = Tail(todo) /\ drvRings' = drvRings /\ registered
        /\ main = "idle" /\ UNCHANGED registered
    BY AccessTakes
  <1>2. Rest(todo, L) /\ Len(L) = (IF legacy THEN 6 ELSE 11) /\ Len(L) \in Nat
    BY SetUpList DEF SetUpInv
  <1>3. L' = L
    BY LayoutStays
  <1>4. ~enabled /\ HalvesSet(vringAddr, a, done) /\ drvRings = RingsOf(a) /\ Seen(done, seen)
    BY <1>1 DEF SetUpInv
  <1>5. RingsOf(a)' = RingsOf(a) /\ Told' = Told
    BY DEF RingsOf, Told
  <1>6. /\ L[1] = Read("CONFIG_LOW") /\ L[2] = Read("CONFIG_HIGH")
        /\ L[3] = Read("QUEUE_NUM_MAX") /\ L[4] = Write("QUEUE_NUM", QueueSize)
        /\ legacy => L[5] = Write("QUEUE_ALIGN", PageSize) /\ L[6] = Write(QueueReg, a)
        /\ ~legacy => /\ L[5] = Write("DESC_LOW", a % Word)
                      /\ L[6] = Write("DESC_HIGH", a \div Word)
                      /\ L[7] = Write("AVAIL_LOW", (a + 1) % Word)
                      /\ L[8] = Write("AVAIL_HIGH", (a + 1) \div Word)
                      /\ L[9] = Write("USED_LOW", (a + 2) % Word)
                      /\ L[10] = Write("USED_HIGH", (a + 2) \div Word)
                      /\ L[11] = Write(QueueReg, 1)
    BY SetUpList DEF QueueReg
  <1> SUFFICES /\ Rest(todo', L')
               /\ todo' # <<>> => ~enabled' /\ HalvesSet(vringAddr', a, done')
               /\ Seen(done', seen')
               /\ todo' = <<>> => /\ enabled' /\ ioEfd' \in Fds /\ main' = "idle"
                                  /\ vring' = RingsOf(a)
    <2>1. HalvesSet(vringAddr, a, done)' <=> HalvesSet(vringAddr', a, done')
      BY DEF HalvesSet
    <2> QED
      BY <1>1, <1>4, <1>5, <2>1 DEF SetUpInv
  <1> HIDE DEF L
  <1>7. /\ Len(todo) \in 1 .. Len(L) /\ Head(todo) = L[Len(L) - Len(todo) + 1]
        /\ Rest(Tail(todo), L) /\ Len(Tail(todo)) = Len(todo) - 1
    BY <1>1, <1>2, RestStep
  <1>8. /\ done \in Nat /\ done < Len(L) /\ Head(todo) = L[done + 1] /\ done' = done + 1
        /\ Rest(todo', L') /\ (todo' = <<>> <=> done' = Len(L))
    <2>1. Len(L') = Len(L) /\ Len(todo') = Len(todo) - 1 /\ Rest(todo', L')
      BY <1>1, <1>3, <1>7
    <2>2. Len(L) \in Nat /\ Len(todo) \in 1 .. Len(L)
      BY <1>2, <1>7
    <2>3. done \in Nat /\ done < Len(L) /\ done' = done + 1
      BY <2>1, <2>2
    <2>4. Head(todo) = L[done + 1]
      BY <1>7
    <2>5. todo' = <<>> <=> Len(todo') = 0
      BY <1>1, <1>2, <1>7, RestLen
    <2> QED
      BY <2>1, <2>2, <2>3, <2>4, <2>5
  <1> HIDE DEF done
  <1>9. CASE done \in {0, 1, 2}
    <2>1. Head(todo) \in {Read("CONFIG_LOW"), Read("CONFIG_HIGH"), Read("QUEUE_NUM_MAX")}
      BY <1>6, <1>8, <1>9
    <2>2. UNCHANGED <<vringAddr, enabled>>
      BY <2>1, AccessTakes DEF devVars, vqVars
    <2>3. done' < Len(L)
      BY <1>2, <1>8, <1>9
    <2>4. HalvesSet(vringAddr', a, done')
      BY <1>8, <1>9 DEF HalvesSet
    <2>5. Seen(done', seen')
      <3>1. CASE done = 0
        <4>1. seen' = <<Capacity % Word>>
          BY <1>4, <1>6, <1>8, <3>1, AccessTakes, ConfigRead, Appended
        <4> QED
          BY <1>8, <3>1, <4>1
      <3>2. CASE done = 1
        <4>1. seen' = Append(seen, Capacity \div Word)
          BY <1>6, <1>8, <3>2, AccessTakes, ConfigRead
        <4>2. seen' = <<Capacity % Word, Capacity \div Word>>
          BY <1>4, <3>2, <4>1, Appended
        <4> QED
          BY <1>8, <3>2, <4>2
      <3>3. CASE done = 2
        <4>1. seen' = Append(seen, QueueSize)
          BY <1>6, <1>8, <3>3, AccessTakes, ConfigRead
        <4>2. seen' = Told
          BY <1>4, <3>3, <4>1, Appended DEF Told
        <4> QED
          BY <1>8, <3>3, <4>2
      <3> QED
        BY <1>9, <3>1, <3>2, <3>3
    <2> HIDE DEF Seen
    <2> QED
      BY <1>4, <1>8, <2>2, <2>3, <2>4, <2>5
  <1>10. CASE done >= 3
    <2>1. PICK r, v : Head(todo) = Write(r, v)
      BY <1>2, <1>6, <1>8, <1>10
    <2>2. Seen(done', seen')
      BY <1>4, <1>8, <1>10, <2>1, AccessTakes
    <2> HIDE DEF Seen
    <2>3. CASE done = 3
      <3>1. config_out("QUEUE_NUM", QueueSize)
        BY <1>6, <1>8, <2>3, AccessTakes
      <3>2. UNCHANGED <<vringAddr, enabled>>
        BY <3>1, StoredWritten, Registers DEF vqVars
      <3>3. done' < Len(L) /\ HalvesSet(vringAddr', a, done')
        BY <1>2, <1>8, <2>3 DEF HalvesSet
      <3> QED
        BY <1>4, <1>8, <2>2, <3>2, <3>3
    <2>4. CASE done >= 4 /\ done + 1 # Len(L)
      <3>1. done \in 4 .. 9 /\ (legacy => done = 4)
        BY <1>2, <1>8, <2>4
      <3>2. PICK s, w :
               /\ s \in AddrRegs
               /\ config_out(s, w)
               /\ legacy => s = "QUEUE_ALIGN" /\ w = PageSize
               /\ ~legacy => <<s, w>> = CASE done = 4 -> <<"DESC_LOW", a % Word>>
                                          [] done = 5 -> <<"DESC_HIGH", a \div Word>>
                                          [] done = 6 -> <<"AVAIL_LOW", (a + 1) % Word>>
                                          [] done = 7 -> <<"AVAIL_HIGH", (a + 1) \div Word>>
                                          [] done = 8 -> <<"USED_LOW", (a + 2) % Word>>
                                          [] done = 9 -> <<"USED_HIGH", (a + 2) \div Word>>
        <4>1. CASE legacy
          <5>1. config_out("QUEUE_ALIGN", PageSize) /\ "QUEUE_ALIGN" \in AddrRegs
            BY <1>6, <1>8, <3>1, <4>1, AccessTakes, Registers
          <5> QED
            BY <4>1, <5>1
        <4>2. CASE ~legacy
          <5>1. CASE done = 4
            <6>1. config_out("DESC_LOW", a % Word) /\ "DESC_LOW" \in AddrRegs
              BY <1>6, <1>8, <4>2, <5>1, AccessTakes DEF AddrRegs
            <6> QED
              BY <4>2, <5>1, <6>1
          <5>2. CASE done = 5
            <6>1. config_out("DESC_HIGH", a \div Word) /\ "DESC_HIGH" \in AddrRegs
              BY <1>6, <1>8, <4>2, <5>2, AccessTakes DEF AddrRegs
            <6> QED
              BY <4>2, <5>2, <6>1
          <5>3. CASE done = 6
            <6>1. config_out("AVAIL_LOW", (a + 1) % Word) /\ "AVAIL_LOW" \in AddrRegs
              BY <1>6, <1>8, <4>2, <5>3, AccessTakes DEF AddrRegs
            <6> QED
              BY <4>2, <5>3, <6>1
          <5>4. CASE done = 7
            <6>1. config_out("AVAIL_HIGH", (a + 1) \div Word) /\ "AVAIL_HIGH" \in AddrRegs
              BY <1>6, <1>8, <4>2, <5>4, AccessTakes DEF AddrRegs
            <6> QED
              BY <4>2, <5>4, <6>1
          <5>5. CASE done = 8
            <6>1. config_out("USED_LOW", (a + 2) % Word) /\ "USED_LOW" \in AddrRegs
              BY <1>6, <1>8, <4>2, <5>5, AccessTakes DEF AddrRegs
            <6> QED
              BY <4>2, <5>5, <6>1
          <5>6. CASE done = 9
            <6>1. config_out("USED_HIGH", (a + 2) \div Word) /\ "USED_HIGH" \in AddrRegs
              BY <1>6, <1>8, <4>2, <5>6, AccessTakes DEF AddrRegs
            <6> QED
              BY <4>2, <5>6, <6>1
          <5> QED
            BY <3>1, <5>1, <5>2, <5>3, <5>4, <5>5, <5>6
        <4> QED
          BY <4>1, <4>2
      <3>3. vringAddr' = [vringAddr EXCEPT ![s] = w] /\ UNCHANGED enabled
        BY <3>2, AddrWritten
      <3>4. HalvesSet(vringAddr', a, done + 1)
        BY <1>4, <3>1, <3>2, <3>3, HalfWritten
      <3>5. done' < Len(L)
        BY <1>2, <1>8, <2>4
      <3> QED
        BY <1>4, <1>8, <2>2, <3>3, <3>4, <3>5
    <2>5. CASE done + 1 = Len(L)
      <3>1. PICK w : config_out(QueueReg, w) /\ w # 0 /\ (legacy => w = a)
        <4>1. a # 0
          BY MmioAssumption
        <4>2. CASE legacy
          <5>1. config_out(QueueReg, a)
            BY <1>2, <1>6, <1>8, <2>5, <4>2, AccessTakes
          <5> QED
            BY <4>1, <5>1
        <4>3. CASE ~legacy
          <5>1. config_out(QueueReg, 1)
            BY <1>2, <1>6, <1>8, <2>5, <4>3, AccessTakes
          <5> QED
            BY <4>3, <5>1
        <4> QED
          BY <4>2, <4>3
      <3>2. /\ init_vq
            /\ legacy => vringAddr' = [vringAddr EXCEPT !.pfn = w, !.pgsize = hdr.GUEST_PAGE_SIZE]
            /\ ~legacy => vringAddr' = vringAddr
            /\ UNCHANGED <<hdrVars, main>>
        BY <3>1, QueueEnabled
      <3>3. legacy => /\ vringAddr'.pfn = a /\ vringAddr'.pgsize = PageSize
                      /\ vringAddr'.QUEUE_ALIGN = vringAddr.QUEUE_ALIGN
        BY <3>1, <3>2 DEF RegTypeOK, ZeroAddr, AddrRegs
      <3>4. enabled' /\ ioEfd' \in Fds /\ main' = main /\ vring' = RingsAt(vringAddr')
        <4>1. legacy => vringAddr'.pfn # 0
          BY <3>3, MmioAssumption
        <4> QED
          BY <1>1, <1>4, <3>2, <4>1, InitVqStep
      <3>5. HalvesSet(vringAddr', a, 10)
        BY <1>2, <1>4, <1>8, <2>5, <3>2, <3>3 DEF HalvesSet
      <3>6. vring' = RingsOf(a)
        BY <3>3, <3>4, <3>5, RingsSet
      <3> QED
        BY <1>1, <1>8, <2>2, <2>5, <3>4, <3>6
    <2> QED
      BY <1>8, <1>10, <2>3, <2>4, <2>5
  <1> QED
    BY <1>8, <1>9, <1>10

LEMMA LeavingAccess ==
    ASSUME access, UNCHANGED legacy, NEW L, L = GiveUp \/ L = Unbind, Rest(todo, L)
    PROVE  /\ Rest(todo', L) /\ Len(todo') = Len(todo) - 1 /\ (todo' = <<>> <=> Len(todo') = 0)
           /\ Len(todo) \in 1 .. 4
           /\ Len(todo) = 2 => Head(todo) = Write(QueueReg, 0)
           /\ Len(todo) = 1 => Head(todo) \in {Write("STATUS", Ok \cup {"FAILED"}),
                                               Write("STATUS", {"ACKNOWLEDGE"})}
  <1>1. todo # <<>> /\ todo' = Tail(todo)
    BY AccessTakes
  <1>2. /\ Len(L) \in {3, 4} /\ L[Len(L) - 1] = Write(QueueReg, 0)
        /\ L[Len(L)] \in {Write("STATUS", Ok \cup {"FAILED"}), Write("STATUS", {"ACKNOWLEDGE"})}
    <2>1. CASE L = GiveUp
      BY <2>1, GiveUpList
    <2>2. CASE L = Unbind
      BY <2>2, UnbindList
    <2> QED
      BY <2>1, <2>2
  <1>3. Len(L) \in Nat
    BY <1>2
  <1>4. /\ Len(todo) \in 1 .. Len(L) /\ Head(todo) = L[Len(L) - Len(todo) + 1]
        /\ Rest(Tail(todo), L) /\ Len(Tail(todo)) = Len(todo) - 1
    BY <1>1, <1>3, RestStep
  <1>5. todo' = <<>> <=> Len(todo') = 0
    BY <1>1, <1>3, <1>4, RestLen
  <1>6. Len(todo) = 2 => Head(todo) = L[Len(L) - 1]
    BY <1>2, <1>4
  <1>7. Len(todo) = 1 => Head(todo) = L[Len(L)]
    BY <1>2, <1>4
  <1> QED
    <2>1. Rest(todo', L) /\ Len(todo') = Len(todo) - 1
      BY <1>1, <1>4
    <2>5. Len(L) <= 4
      BY <1>2
    <2>6. Len(todo) \in 1 .. Len(L)
      BY <1>4
    <2>7. \A m, n : n \in Nat /\ n <= 4 /\ m \in 1 .. n => m \in 1 .. 4
      OBVIOUS
    <2>2. Len(todo) \in 1 .. 4
      BY <1>3, <2>5, <2>6, <2>7, Zenon
    <2>3. Len(todo) = 2 => Head(todo) = Write(QueueReg, 0)
      BY <1>2, <1>6
    <2>4. Len(todo) = 1 => Head(todo) \in {Write("STATUS", Ok \cup {"FAILED"}),
                                          Write("STATUS", {"ACKNOWLEDGE"})}
      BY <1>2, <1>7, Zenon
    <2> QED
      BY <1>5, <2>1, <2>2, <2>3, <2>4, Zenon

LEMMA AccessScript ==
    ASSUME QueueInv, RegTypeOK, ScriptInv, RingsInv, access
    PROVE  QueueInv' /\ RegTypeOK' /\ ScriptInv' /\ RingsInv'
  <1>1. /\ todo # <<>> /\ todo' = Tail(todo) /\ main = "idle" /\ registered
        /\ UNCHANGED <<registered, drv, drvFeatures, drvRings, work>>
    BY AccessTakes
  <1>2. /\ QueueInv' /\ RegTypeOK' /\ UNCHANGED legacy /\ features \subseteq features'
        /\ legacy /\ hdr.GUEST_PAGE_SIZE = PageSize => hdr'.GUEST_PAGE_SIZE = PageSize
    <2>1. Proper(Head(todo))
      BY <1>1, NextProper
    <2> QED
      BY <2>1, AccessStep
  <1>3. drv # "off"
    BY <1>1 DEF ScriptInv
  <1>4. Bound' = Bound /\ Told' = Told /\ GiveUp' = GiveUp /\ Unbind' = Unbind /\ Kick' = Kick
    BY <1>2, LayoutStays DEF Told, Kick
  <1>5. drv \in {"queue", "ready", "bound"} => drvFeatures' \subseteq features'
    BY <1>1, <1>2 DEF ScriptInv
  <1>6. CASE drv = "probe"
    <2>1. /\ Rest(todo, Identify)
          /\ legacy /\ Len(todo) <= 2 => hdr.GUEST_PAGE_SIZE = PageSize
      BY <1>6 DEF ScriptInv
    <2>2. /\ Rest(todo', Identify')
          /\ legacy /\ Len(todo') <= 2 => hdr'.GUEST_PAGE_SIZE = PageSize
      BY <1>2, <2>1, ProbeAccess
    <2> QED
      BY <1>1, <1>2, <1>6, <2>2 DEF ScriptInv, RingsInv
  <1>7. CASE drv = "negotiate"
    <2>1. NegotiateInv'
      BY <1>2, <1>7, NegotiateAccess DEF ScriptInv
    <2> QED
      BY <1>1, <1>2, <1>7, <2>1 DEF ScriptInv, RingsInv
  <1>8. CASE drv = "features"
    <2>1. FeaturesInv'
      BY <1>2, <1>8, FeaturesAccess DEF ScriptInv
    <2> QED
      BY <1>1, <1>2, <1>8, <2>1 DEF ScriptInv, RingsInv
  <1>9. CASE drv = "queue"
    <2>1. FindInv'
      BY <1>2, <1>9, FindAccess DEF ScriptInv
    <2> QED
      BY <1>1, <1>2, <1>5, <1>9, <2>1 DEF ScriptInv, RingsInv
  <1>10. CASE drv = "ready"
    <2>1. PICK a \in Addrs : SetUpInv(a)
      BY <1>10 DEF ScriptInv
    <2>2. /\ SetUpInv(a)'
          /\ todo' = <<>> => /\ enabled' /\ ioEfd' \in Fds /\ main' = "idle"
                             /\ vring' = drvRings'
      BY <1>2, <1>10, <2>1, SetUpAccess DEF ScriptInv
    <2>3. \E b \in Addrs' : SetUpInv(b)'
      BY <2>2
    <2>4. ScriptInv'
      BY <1>1, <1>2, <1>5, <1>10, <2>3 DEF ScriptInv
    <2>5. RingsInv'
      BY <1>1, <1>10, <2>2 DEF RingsInv, Fds
    <2> QED
      BY <1>2, <2>4, <2>5
  <1>11. CASE drv = "bound"
    <2>1. todo \in {Bound, Kick}
      BY <1>1, <1>11 DEF ScriptInv
    <2>2. todo' = <<>>
      BY <1>1, <2>1 DEF Bound, Kick
    <2>3. seen' = seen /\ UNCHANGED <<vring, enabled, ioEfd, main>>
      <3>1. CASE todo = Bound
        <4>1. Head(todo) = Write("STATUS", Ok \cup {"DRIVER_OK"})
          BY <3>1 DEF Bound
        <4>2. seen' = seen /\ config_out("STATUS", Ok \cup {"DRIVER_OK"})
          BY <4>1, AccessTakes
        <4>3. virtio_notify_status(Ok \cup {"DRIVER_OK"})
          BY <4>2, StatusWritten
        <4>4. UNCHANGED <<main, vqVars, blkVars>>
          BY <1>1, <1>2, <4>3, StatusStep
        <4> QED
          BY <4>2, <4>4 DEF vqVars, blkVars
      <3>2. CASE todo = Kick
        <4>1. Head(todo) = Write("QUEUE_NOTIFY", 0)
          BY <3>2 DEF Kick
        <4>2. seen' = seen /\ config_out("QUEUE_NOTIFY", 0)
          BY <4>1, AccessTakes
        <4> QED
          BY <4>2, NotifyWritten DEF vqVars
      <3> QED
        BY <2>1, <3>1, <3>2
    <2>4. ScriptInv'
      BY <1>1, <1>2, <1>4, <1>5, <1>11, <2>2, <2>3 DEF ScriptInv
    <2>5. RingsInv'
      BY <1>1, <1>11, <2>3 DEF RingsInv, Fds
    <2> QED
      BY <1>2, <2>4, <2>5
  <1>12. CASE drv \in {"failed", "removed"}
    <2>1. drv = "failed" => Rest(todo', GiveUp)
      BY <1>2, LeavingAccess DEF ScriptInv
    <2>2. drv = "removed" => Rest(todo', Unbind)
      BY <1>2, LeavingAccess DEF ScriptInv
    <2> QED
      BY <1>1, <1>2, <1>4, <1>12, <2>1, <2>2 DEF ScriptInv, RingsInv
  <1> QED
    BY <1>3, <1>6, <1>7, <1>8, <1>9, <1>10, <1>11, <1>12 DEF ScriptInv

\* No driver touches the queue before it looks for it.
LEMMA NoQueueWritten ==
    /\ \A k \in 1 .. 5 : ~ (Negotiate[k].write /\ Negotiate[k].reg = QueueReg)
    /\ \A high, fs : \A k \in 1 .. Len(Accept(high, fs)) :
           ~ (Accept(high, fs)[k].write /\ Accept(high, fs)[k].reg = QueueReg)
  <1> DEFINE Other(a) == ~ (a.write /\ a.reg = QueueReg)
  <1>1. /\ \A v : /\ Other(Write("STATUS", v)) /\ Other(Write("DEVICE_FEATURES_SEL", v))
                  /\ Other(Write("DRIVER_FEATURES_SEL", v)) /\ Other(Write("DRIVER_FEATURES", v))
        /\ \A r : Other(Read(r))
    BY Fields DEF QueueReg
  <1> HIDE DEF Other
  <1>2. \A k \in 1 .. 5 : Other(Negotiate[k])
    <2>1. Other(Negotiate[1]) /\ Other(Negotiate[2]) /\ Other(Negotiate[3]) /\ Other(Negotiate[4])
          /\ Other(Negotiate[5])
      BY <1>1, NegotiateList, Zenon
    <2> QED
      BY <2>1
  <1>3. ASSUME NEW high, NEW fs, NEW k \in 1 .. Len(Accept(high, fs))
        PROVE  Other(Accept(high, fs)[k])
    <2> DEFINE L == Accept(high, fs)
    <2>1. Len(L) = IF legacy THEN 4 ELSE 6
      BY AcceptList
    <2>2. L[1] = Write("DRIVER_FEATURES_SEL", 1) /\ L[3] = Write("DRIVER_FEATURES_SEL", 0)
      BY AcceptList
    <2>3. L[2] = Write("DRIVER_FEATURES", high) /\ L[4] = Write("DRIVER_FEATURES", fs)
      BY AcceptList
    <2>4. ~legacy => /\ L[5] = Write("STATUS", {"ACKNOWLEDGE", "DRIVER", "FEATURES_OK"})
                     /\ L[6] = Read("STATUS")
      BY AcceptList
    <2> HIDE DEF L
    <2>5. Other(L[1]) /\ Other(L[2]) /\ Other(L[3]) /\ Other(L[4])
      BY <1>1, <2>2, <2>3, Zenon
    <2>6. ~legacy => Other(L[5]) /\ Other(L[6])
      BY <1>1, <2>4, Zenon
    <2>7. k \in 1 .. Len(L)
      BY <1>3 DEF L
    <2>8. Other(L[k])
      BY <2>1, <2>5, <2>6, <2>7
    <2> QED
      BY <2>8 DEF L
  <1> QED
    BY <1>2, <1>3 DEF Other

\* A queue that is in use is that of a started device until the reset.
LEMMA AccessIdle ==
    ASSUME QueueInv, RegTypeOK, ScriptInv, RingsInv, IdleInv, access
    PROVE  IdleInv'
  <1>1. /\ todo # <<>> /\ todo' = Tail(todo) /\ main = "idle" /\ registered
        /\ UNCHANGED <<registered, drv, drvFeatures, drvRings, work>>
    BY AccessTakes
  <1>2. Proper(Head(todo))
    BY <1>1, NextProper
  <1>3. /\ UNCHANGED legacy /\ QueueInv'
        /\ legacy /\ hdr.GUEST_PAGE_SIZE = PageSize => hdr'.GUEST_PAGE_SIZE = PageSize
        /\ enabled' /\ ~enabled =>
               Head(todo).write /\ Head(todo).reg = QueueReg /\ Head(todo).val # 0
    BY <1>2, AccessStep
  <1>4. ASSUME NEW v, Head(todo) = Write("STATUS", v)
        PROVE  /\ enabled' => enabled
               /\ v # {} => UNCHANGED <<enabled, main>>
               /\ v = {} => start' = FALSE /\ (start => main' = "join" \/ ~enabled')
               /\ v = {} /\ ~start => UNCHANGED <<enabled, main>>
               /\ v # {} /\ "DRIVER_OK" \notin v => start' = start
    <2>1. virtio_notify_status(v)
      BY <1>4, AccessTakes, StatusWritten
    <2> QED
      BY <1>1, <1>3, <2>1, StatusStep DEF vqVars
  <1>5. CASE drv = "probe"
    <2>1. /\ Rest(todo, Identify)
          /\ legacy /\ Len(todo) <= 2 => hdr.GUEST_PAGE_SIZE = PageSize
      BY <1>5 DEF ScriptInv
    <2>2. /\ Rest(todo', Identify') /\ Len(todo') = Len(todo) - 1
          /\ Len(todo) = 2 => Head(todo) = Write("STATUS", {})
          /\ Len(todo) = 1 => Head(todo) = Write("STATUS", {"ACKNOWLEDGE"})
          /\ Len(todo) \in {1, 2} \/ UNCHANGED <<enabled, start, main>>
      BY <1>3, <2>1, ProbeAccess
    <2>3. Len(todo) \in Nat /\ Len(todo) # 0 /\ (todo' = <<>> => Len(todo') = 0)
      <3>1. Len(todo) \in Nat /\ Len(todo) # 0
        BY <1>1, <2>1, RestLen, IdentifyList
      <3>2. todo' = <<>> => Len(todo') = 0
        OBVIOUS
      <3> QED
        BY <3>1, <3>2
    <2>4. CASE Len(todo) = 2
      <3>1. start' = FALSE /\ (main' = "join" \/ ~enabled')
        BY <1>1, <1>4, <1>5, <2>2, <2>4 DEF IdleInv
      <3> QED
        BY <1>1, <1>5, <2>2, <2>3, <2>4, <3>1 DEF IdleInv
    <2>5. CASE Len(todo) = 1
      <3>1. ~enabled
        BY <1>1, <1>5, <2>5 DEF IdleInv
      <3>2. ~enabled'
        BY <1>4, <2>2, <2>5, <3>1
      <3> QED
        BY <1>1, <1>5, <3>2 DEF IdleInv
    <2>6. CASE Len(todo) \notin {1, 2}
      BY <1>1, <1>5, <2>2, <2>3, <2>6 DEF IdleInv
    <2> QED
      BY <2>4, <2>5, <2>6
  <1>6. CASE drv \in {"failed", "removed"}
    <2>1. PICK L : (L = GiveUp \/ L = Unbind) /\ Rest(todo, L)
      BY <1>6 DEF ScriptInv
    <2>2. /\ Len(todo') = Len(todo) - 1 /\ (todo' = <<>> <=> Len(todo') = 0) /\ Len(todo) \in 1 .. 4
          /\ Len(todo) = 2 => Head(todo) = Write(QueueReg, 0)
          /\ Len(todo) = 1 => Head(todo) \in {Write("STATUS", Ok \cup {"FAILED"}),
                                              Write("STATUS", {"ACKNOWLEDGE"})}
      BY <1>3, <2>1, LeavingAccess
    <2>3. CASE Len(todo) = 2
      <3>1. exit_vq("join")
        BY <2>2, <2>3, AccessTakes, QueueDisabled
      <3>2. ~enabled' \/ main' # "idle"
        BY <1>1, <1>3, <3>1, ExitVqStep DEF QueueInv
      <3> QED
        BY <1>1, <1>6, <2>2, <2>3, <3>2 DEF IdleInv
    <2>4. CASE Len(todo) = 1
      <3>1. ~enabled
        BY <1>1, <1>6, <2>4 DEF IdleInv
      <3>2. ~enabled'
        BY <1>4, <2>2, <2>4, <3>1
      <3> QED
        BY <1>1, <1>6, <3>2 DEF IdleInv
    <2>5. CASE Len(todo) \notin {1, 2}
      BY <1>1, <1>6, <2>2, <2>5 DEF IdleInv
    <2> QED
      BY <2>3, <2>4, <2>5
  <1>7. CASE drv \in {"negotiate", "features", "queue"}
    <2>1. ~enabled
      BY <1>7 DEF IdleInv
    <2>2. ~enabled'
      <3>1. CASE drv = "negotiate"
        <4>1. Rest(todo, Negotiate)
          BY <3>1 DEF ScriptInv, NegotiateInv
        <4>2. Len(Negotiate) \in Nat
          BY NegotiateList
        <4>6. Len(Negotiate) = 5
          BY NegotiateList
        <4>3. Len(todo) \in 1 .. Len(Negotiate)
              /\ Head(todo) = Negotiate[Len(Negotiate) - Len(todo) + 1]
          BY <1>1, <4>1, <4>2, RestStep
        <4>5. \A k \in 1 .. Len(Negotiate) : ~ (Negotiate[k].write /\ Negotiate[k].reg = QueueReg)
          BY <4>6, NoQueueWritten
        <4>4. ~ (Head(todo).write /\ Head(todo).reg = QueueReg)
          BY <4>2, <4>3, <4>5
        <4> QED
          BY <1>3, <2>1, <4>4
      <3>2. CASE drv = "features"
        <4> DEFINE L == Accept(High, drvFeatures)
        <4>1. Rest(todo, L) /\ Len(L) \in Nat
          BY <3>2, AcceptList DEF ScriptInv, FeaturesInv
        <4>2. \A k \in 1 .. Len(L) : ~ (L[k].write /\ L[k].reg = QueueReg)
          BY NoQueueWritten
        <4> HIDE DEF L
        <4>3. Len(todo) \in 1 .. Len(L) /\ Head(todo) = L[Len(L) - Len(todo) + 1]
          BY <1>1, <4>1, RestStep
        <4>4. ~ (Head(todo).write /\ Head(todo).reg = QueueReg)
          BY <4>1, <4>2, <4>3
        <4> QED
          BY <1>3, <2>1, <4>4
      <3>3. CASE drv = "queue"
        BY <1>3, <2>1, <3>3, FindAccess DEF ScriptInv
      <3> QED
        BY <1>7, <3>1, <3>2, <3>3
    <2> QED
      BY <1>1, <1>7, <2>2 DEF IdleInv
  <1> QED
    BY <1>1, <1>5, <1>6, <1>7 DEF IdleInv, ScriptInv

(***************************************************************************)
(* The invariant holds                                                     *)
(***************************************************************************)

Inv == QueueInv /\ RegTypeOK /\ ScriptInv /\ RingsInv

LEMMA InitInv == Init => Inv /\ IdleInv
  <1> SUFFICES ASSUME Init PROVE Inv /\ IdleInv
    OBVIOUS
  <1>1. QueueInv
    <2>1. reads = <<>> /\ DOMAIN reads = {}
      BY DEF Init
    <2>2. Threads = {}
      BY <2>1 DEF Threads
    <2> QED
      BY <2>2 DEF Init, QueueInv, Fds
  <1>2. RegTypeOK
    BY DEF Init, RegTypeOK, StatusBits
  <1>3. ScriptInv /\ RingsInv /\ IdleInv
    BY DEF Init, ScriptInv, RingsInv, IdleInv
  <1> QED
    BY <1>1, <1>2, <1>3 DEF Inv

\* A step of the driver alone leaves the device as it is.
LEMMA DriverQueue ==
    ASSUME QueueInv, RegTypeOK, UNCHANGED devVars, drvFeatures' \in SUBSET HostFeatures,
           work' \in BOOLEAN
    PROVE  QueueInv' /\ RegTypeOK'
  <1>1. UNCHANGED <<hdr, status, legacy, start, features, vringAddr, vring, enabled, blkVars, main,
                    registered>>
    BY DEF devVars, hdrVars, vqVars
  <1>2. QueueInv'
    BY <1>1, QueueStutters
  <1>3. StoredRegs' = StoredRegs /\ ZeroAddr' = ZeroAddr
    BY <1>1, LayoutStays
  <1> QED
    BY <1>1, <1>2, <1>3 DEF RegTypeOK

LEMMA ProbeStep == ASSUME Inv, probe PROVE Inv' /\ (IdleInv => IdleInv')
  <1>1. /\ drv = "off" /\ drv' = "probe" /\ todo' = Identify /\ drvFeatures' = {} /\ UNCHANGED devVars
        /\ work' = work
    BY DEF probe, Stage
  <1>2. UNCHANGED <<legacy, enabled, start, main, hdr>>
    BY <1>1 DEF devVars, hdrVars, vqVars
  <1>3. QueueInv' /\ RegTypeOK'
    BY <1>1, DriverQueue DEF Inv, RegTypeOK
  <1>4. Identify' = Identify
    BY <1>2, LayoutStays
  <1>5. Len(Identify) >= 3 /\ Rest(todo', Identify') /\ todo' # <<>>
    BY <1>1, <1>4, IdentifyList, RestLen
  <1>6. ScriptInv'
    BY <1>1, <1>2, <1>5 DEF ScriptInv
  <1>7. RingsInv'
    BY <1>1 DEF RingsInv
  <1>8. IdleInv => IdleInv'
    <2>1. Len(todo') >= 3
      BY <1>1, <1>5
    <2>2. Len(todo') \in Nat
      BY <1>1, IdentifyList
    <2> QED
      BY <1>1, <1>2, <1>5, <2>1, <2>2 DEF IdleInv
  <1> QED
    BY <1>3, <1>6, <1>7, <1>8 DEF Inv

LEMMA BindStep == ASSUME Inv, bind PROVE Inv' /\ (IdleInv => IdleInv')
  <1>1. /\ drv \in {"probe", "removed"} /\ todo = <<>> /\ drv' = "negotiate" /\ todo' = Negotiate
        /\ seen' = <<>> /\ UNCHANGED <<devVars, drvFeatures, work>>
    BY DEF bind, Stage, Ended
  <1>2. UNCHANGED <<legacy, enabled, start, main, hdr>>
    BY <1>1 DEF devVars, hdrVars, vqVars
  <1>3. QueueInv' /\ RegTypeOK'
    BY <1>1, DriverQueue DEF Inv, RegTypeOK
  <1>4. Negotiate' = Negotiate
    BY DEF Negotiate
  <1>5. Rest(todo', Negotiate') /\ Len(todo') = 5
    BY <1>1, <1>4, NegotiateList
  <1>6. NegotiateInv'
    BY <1>1, <1>5 DEF NegotiateInv
  <1>7. legacy' => hdr'.GUEST_PAGE_SIZE = PageSize
    <2>1. Len(todo) = 0
      BY <1>1
    <2> QED
      BY <1>1, <1>2, <2>1 DEF Inv, ScriptInv
  <1>8. ScriptInv'
    BY <1>1, <1>6, <1>7 DEF ScriptInv
  <1>9. RingsInv' /\ (IdleInv => IdleInv')
    BY <1>1, <1>2 DEF RingsInv, IdleInv
  <1> QED
    BY <1>3, <1>8, <1>9 DEF Inv

LEMMA AcceptStep ==
    ASSUME Inv, NEW fs, accept(fs)
    PROVE  Inv' /\ (IdleInv => IdleInv')
  <1>1. /\ drv = "negotiate" /\ todo = <<>> /\ fs \subseteq seen[2] /\ drvFeatures' = fs
        /\ drv' = "features" /\ todo' = Accept(seen[1], fs) /\ UNCHANGED <<devVars, work>>
    BY DEF accept, Stage, Ended
  <1>2. UNCHANGED <<legacy, enabled, start, main, hdr>>
    BY <1>1 DEF devVars, hdrVars, vqVars
  <1>3. seen = <<High, HostFeatures>>
    <2>1. Len(todo) = 0
      BY <1>1
    <2> QED
      BY <1>1, <2>1 DEF Inv, ScriptInv, NegotiateInv
  <1>4. seen[1] = High /\ fs \in SUBSET HostFeatures
    BY <1>1, <1>3
  <1>5. QueueInv' /\ RegTypeOK'
    BY <1>1, <1>4, DriverQueue DEF Inv, RegTypeOK
  <1> DEFINE L == Accept(High, drvFeatures)
  <1>6. L' = todo'
    <2>1. High' = High
      BY <1>2, LayoutStays
    <2>2. Accept(High, fs)' = Accept(High, fs)
      BY <1>2, <2>1 DEF Accept
    <2> QED
      BY <1>1, <1>4, <2>1, <2>2 DEF Accept
  <1>7. Rest(todo', todo') /\ Len(todo') \in Nat
    BY <1>1, AcceptList
  <1>8. FeaturesInv'
    <2>1. (Len(L) - Len(todo))' = 0
      BY <1>6, <1>7
    <2>2. Rest(todo', L')
      BY <1>6, <1>7
    <2> HIDE DEF L
    <2>3. /\ (Len(L) - Len(todo))' \in {1, 2} => hdr'.DRIVER_FEATURES_SEL = 1
          /\ (Len(L) - Len(todo))' = 3 => hdr'.DRIVER_FEATURES_SEL = 0
          /\ (Len(L) - Len(todo))' >= 4 => drvFeatures' \subseteq features'
      BY <2>1
    <2> QED
      BY <2>2, <2>3 DEF FeaturesInv, L
  <1>9. ScriptInv'
    BY <1>1, <1>2, <1>8 DEF ScriptInv, Inv
  <1>10. RingsInv' /\ (IdleInv => IdleInv')
    BY <1>1, <1>2 DEF RingsInv, IdleInv
  <1> QED
    BY <1>5, <1>9, <1>10 DEF Inv

LEMMA FindStep == ASSUME Inv, find_vq PROVE Inv' /\ (IdleInv => IdleInv')
  <1>1. /\ drv = "features" /\ todo = <<>> /\ drv' = "queue" /\ todo' = FindQueue /\ seen' = <<>>
        /\ UNCHANGED <<devVars, drvFeatures, work>>
    BY DEF find_vq, Stage, Ended
  <1>2. UNCHANGED <<legacy, enabled, start, main, hdr, features>>
    BY <1>1 DEF devVars, hdrVars, vqVars
  <1>3. QueueInv' /\ RegTypeOK'
    BY <1>1, DriverQueue DEF Inv, RegTypeOK
  <1>4. FindQueue' = FindQueue
    BY <1>2, LayoutStays DEF FindQueue
  <1>5. Rest(todo', FindQueue') /\ todo' # <<>>
    BY <1>1, <1>4, FindQueueList, RestLen
  <1>6. FindInv'
    BY <1>1, <1>5 DEF FindInv
  <1>7. drvFeatures \subseteq features
    <2> DEFINE L == Accept(High, drvFeatures)
    <2>1. Len(todo) = 0
      BY <1>1
    <2>2. Len(L) - Len(todo) >= 4
      BY <2>1, AcceptList
    <2> QED
      BY <1>1, <2>2 DEF Inv, ScriptInv, FeaturesInv
  <1>8. ScriptInv'
    BY <1>1, <1>2, <1>6, <1>7 DEF ScriptInv, Inv
  <1>9. RingsInv' /\ (IdleInv => IdleInv')
    BY <1>1, <1>2 DEF RingsInv, IdleInv
  <1> QED
    BY <1>3, <1>8, <1>9 DEF Inv

LEMMA SetUpStep ==
    ASSUME Inv, NEW a \in Addrs, setup_vq(a)
    PROVE  Inv' /\ (IdleInv => IdleInv')
  <1>1. /\ drv = "queue" /\ todo = <<>> /\ seen[1] = 0 /\ drvRings' = RingsOf(a)
        /\ drv' = "ready" /\ todo' = SetUp(a) /\ seen' = <<>>
        /\ UNCHANGED <<devVars, drvFeatures, work>>
    BY DEF setup_vq, Stage, Ended, RingsOf
  <1>2. UNCHANGED <<legacy, enabled, start, main, hdr, features>>
    BY <1>1 DEF devVars, hdrVars, vqVars
  <1>3. QueueInv' /\ RegTypeOK'
    BY <1>1, DriverQueue DEF Inv, RegTypeOK
  <1>4. ~enabled
    BY <1>1 DEF Inv, ScriptInv, FindInv
  <1> DEFINE L == SetUp(a)
  <1>5. L' = L /\ RingsOf(a)' = RingsOf(a)
    BY <1>2, LayoutStays DEF RingsOf
  <1>6. Rest(L, L) /\ Len(L) \in Nat /\ Len(L) > 0
    BY SetUpList
  <1>7. todo' = L /\ todo' # <<>>
    BY <1>1, <1>6
  <1>8. SetUpInv(a)'
    <2> HIDE DEF L
    <2>1. (Len(L) - Len(todo))' = 0
      BY <1>5, <1>6, <1>7
    <2>2. Rest(todo', L')
      BY <1>5, <1>6, <1>7
    <2>3. HalvesSet(vringAddr, a, Len(L) - Len(todo))'
      BY <2>1 DEF HalvesSet
    <2>4. /\ (Len(L) - Len(todo))' = 0 => seen' = <<>>
          /\ (Len(L) - Len(todo))' = 1 => seen' = <<Capacity % Word>>
          /\ (Len(L) - Len(todo))' = 2 => seen' = <<Capacity % Word, Capacity \div Word>>
          /\ (Len(L) - Len(todo))' >= 3 => seen' = Told'
      BY <1>1, <2>1
    <2> QED
      BY <1>1, <1>2, <1>4, <1>5, <2>2, <2>3, <2>4 DEF SetUpInv, L
  <1>9. ScriptInv'
    <2>1. \E b \in Addrs' : SetUpInv(b)'
      BY <1>8
    <2> QED
      BY <1>1, <1>2, <2>1 DEF ScriptInv, Inv
  <1>10. RingsInv' /\ (IdleInv => IdleInv')
    BY <1>1, <1>7 DEF RingsInv, IdleInv
  <1> QED
    BY <1>3, <1>9, <1>10 DEF Inv

LEMMA DriverOkStep == ASSUME Inv, driver_ok PROVE Inv' /\ (IdleInv => IdleInv')
  <1>1. /\ drv = "ready" /\ todo = <<>> /\ drv' = "bound" /\ todo' = Bound
        /\ UNCHANGED <<devVars, seen, drvFeatures, drvRings, work>>
    BY DEF driver_ok, Ended, Bound
  <1>2. /\ UNCHANGED <<legacy, enabled, start, main, hdr, features, vring, registered>>
        /\ UNCHANGED <<ioEfd>>
    BY <1>1 DEF devVars, hdrVars, vqVars, blkVars
  <1>3. QueueInv' /\ RegTypeOK'
    BY <1>1, DriverQueue DEF Inv, RegTypeOK
  <1>4. PICK a \in Addrs : SetUpInv(a)
    BY <1>1 DEF Inv, ScriptInv
  <1>5. seen = Told
    <2>1. Len(SetUp(a)) - Len(todo) >= 3
      BY <1>1, SetUpList
    <2> QED
      BY <1>4, <2>1 DEF SetUpInv
  <1>6. Bound' = Bound /\ Told' = Told
    BY <1>2, LayoutStays DEF Told
  <1>7. ScriptInv'
    BY <1>1, <1>2, <1>5, <1>6 DEF ScriptInv, Inv
  <1>8. RingsInv' /\ (IdleInv => IdleInv')
    BY <1>1, <1>2 DEF RingsInv, IdleInv, Inv, Fds
  <1> QED
    BY <1>3, <1>7, <1>8 DEF Inv

LEMMA ProbeFailsStep == ASSUME Inv, probe_fails PROVE Inv' /\ (IdleInv => IdleInv')
  <1>1. /\ drv = "ready" /\ drv' = "failed" /\ todo' = GiveUp
        /\ UNCHANGED <<devVars, drvFeatures, work>>
    BY DEF probe_fails, Stage, Ended
  <1>2. UNCHANGED <<legacy, enabled, start, main, hdr>>
    BY <1>1 DEF devVars, hdrVars, vqVars
  <1>3. QueueInv' /\ RegTypeOK'
    BY <1>1, DriverQueue DEF Inv, RegTypeOK
  <1>4. GiveUp' = GiveUp
    BY <1>2, LayoutStays
  <1>5. Rest(todo', GiveUp') /\ Len(todo') = 3 /\ todo' # <<>>
    BY <1>1, <1>4, GiveUpList
  <1>6. ScriptInv'
    BY <1>1, <1>2, <1>5 DEF ScriptInv, Inv
  <1>7. RingsInv' /\ (IdleInv => IdleInv')
    BY <1>1, <1>5 DEF RingsInv, IdleInv
  <1> QED
    BY <1>3, <1>6, <1>7 DEF Inv

LEMMA KickStep == ASSUME Inv, kick PROVE Inv' /\ (IdleInv => IdleInv')
  <1>1. /\ drv = "bound" /\ drv' = "bound" /\ todo' = Kick /\ work' = TRUE
        /\ UNCHANGED <<devVars, seen, drvFeatures, drvRings>>
    BY DEF kick, Ended, Kick
  <1>2. UNCHANGED <<legacy, enabled, start, main, hdr, features, vring, registered, ioEfd>>
    BY <1>1 DEF devVars, hdrVars, vqVars, blkVars
  <1>3. QueueInv' /\ RegTypeOK'
    BY <1>1, DriverQueue DEF Inv, RegTypeOK
  <1>4. Kick' = Kick /\ Told' = Told
    BY DEF Told, Kick
  <1>5. ScriptInv'
    BY <1>1, <1>2, <1>4 DEF ScriptInv, Inv
  <1>6. RingsInv' /\ (IdleInv => IdleInv')
    BY <1>1, <1>2 DEF RingsInv, IdleInv, Inv, Fds
  <1> QED
    BY <1>3, <1>5, <1>6 DEF Inv

LEMMA RemoveStep == ASSUME Inv, remove PROVE Inv' /\ (IdleInv => IdleInv')
  <1>1. /\ drv = "bound" /\ drv' = "removed" /\ todo' = Unbind /\ work' = FALSE
        /\ UNCHANGED <<devVars, drvFeatures>>
    BY DEF remove, Stage, Ended
  <1>2. UNCHANGED <<legacy, enabled, start, main, hdr>>
    BY <1>1 DEF devVars, hdrVars, vqVars
  <1>3. QueueInv' /\ RegTypeOK'
    BY <1>1, DriverQueue DEF Inv, RegTypeOK
  <1>4. Unbind' = Unbind
    BY <1>2, LayoutStays
  <1>5. Rest(todo', Unbind') /\ Len(todo') = 4 /\ todo' # <<>>
    BY <1>1, <1>4, UnbindList
  <1>6. ScriptInv'
    BY <1>1, <1>2, <1>5 DEF ScriptInv, Inv
  <1>7. RingsInv' /\ (IdleInv => IdleInv')
    BY <1>1, <1>5 DEF RingsInv, IdleInv
  <1> QED
    BY <1>3, <1>6, <1>7 DEF Inv

LEMMA GoneStep == ASSUME Inv, gone PROVE Inv' /\ (IdleInv /\ ~DieEarly => IdleInv')
  <1>1. /\ drv' = "off" /\ todo' = <<>> /\ work' = FALSE /\ UNCHANGED <<devVars, drvFeatures>>
        /\ \/ drv \in {"removed", "failed"} /\ todo = <<>>
           \/ DieEarly \/ ~enabled \/ start \/ main # "idle"
    BY DEF gone, Stage, Ended
  <1>2. UNCHANGED <<legacy, enabled, start, main, hdr>>
    BY <1>1 DEF devVars, hdrVars, vqVars
  <1>3. QueueInv' /\ RegTypeOK'
    BY <1>1, DriverQueue DEF Inv, RegTypeOK
  <1>4. ScriptInv' /\ RingsInv'
    BY <1>1 DEF ScriptInv, RingsInv
  <1>5. IdleInv /\ ~DieEarly => IdleInv'
    BY <1>1, <1>2 DEF IdleInv
  <1> QED
    BY <1>3, <1>4, <1>5 DEF Inv

LEMMA NextInv == Inv /\ [Next]_vars => Inv' /\ (IdleInv /\ ~DieEarly => IdleInv')
  <1> SUFFICES ASSUME Inv, [Next]_vars PROVE Inv' /\ (IdleInv /\ ~DieEarly => IdleInv')
    OBVIOUS
  <1> USE DEF Inv
  <1>1. CASE access
    BY <1>1, AccessScript, AccessIdle
  <1>2. CASE probe
    BY <1>2, ProbeStep
  <1>3. CASE Probe
    BY <1>3, BindStep, FindStep, DriverOkStep, AcceptStep, SetUpStep DEF Probe
  <1>4. CASE probe_fails
    BY <1>4, ProbeFailsStep
  <1>5. CASE kick
    BY <1>5, KickStep
  <1>6. CASE remove
    BY <1>6, RemoveStep
  <1>7. CASE gone
    BY <1>7, GoneStep
  <1>8. CASE joined
    BY <1>8, JoinedStep, QuietTypes, QuietScript
  <1>9. CASE virtio_mmio_exit
    BY <1>9, RemovalStep, QuietTypes, QuietScript
  <1>10. CASE \E t \in Threads : IoThread(t)
    BY <1>10, ThreadStep, QuietTypes, QuietScript
  <1>11. CASE UNCHANGED vars
    <2>1. /\ UNCHANGED devVars /\ UNCHANGED <<drv, todo, seen, drvFeatures, drvRings, work>>
      BY <1>11 DEF vars, drvVars
    <2>2. QueueInv' /\ RegTypeOK'
      BY <2>1, DriverQueue DEF RegTypeOK
    <2>3. Quiet
      BY <2>1 DEF Quiet, devVars, hdrVars, vqVars, blkVars
    <2> QED
      BY <2>2, <2>3, QuietScript
  <1> QED
    BY <1>1, <1>2, <1>3, <1>4, <1>5, <1>6, <1>7, <1>8, <1>9, <1>10, <1>11 DEF Next

(***************************************************************************)
(* The theorems                                                            *)
(***************************************************************************)

\* The variables stay in their ranges, and what a thread reads is an open eventfd.
THEOREM TypeCorrect == Safety => []TypeOK
  <1>1. Init => Inv
    BY InitInv
  <1>2. Inv /\ [Next]_vars => Inv'
    BY NextInv
  <1>3. Inv => TypeOK
    <2> SUFFICES ASSUME Inv PROVE TypeOK
      OBVIOUS
    <2>1. fds \in SUBSET Fds /\ Threads \subseteq Fds /\ \A t \in Threads : reads[t] \in {0} \cup fds
      BY DEF Inv, QueueInv
    <2> QED
      BY <2>1 DEF Inv, QueueInv, RegTypeOK, TypeOK
  <1> QED
    BY <1>1, <1>2, <1>3, PTL DEF Safety

\* virtio_init_vq and virtio_exit_vq, init_vq and exit_vq, whatever the driver does
\* in between: an enabled queue has one thread, reading its one eventfd, and rings;
\* another one has nothing.
THEOREM OneThread == Safety => []QueueHasOneThread
  <1>1. Init => Inv
    BY InitInv
  <1>2. Inv /\ [Next]_vars => Inv'
    BY NextInv
  <1>3. Inv => QueueHasOneThread
    BY DEF Inv, QueueInv, QueueHasOneThread
  <1> QED
    BY <1>1, <1>2, <1>3, PTL DEF Safety

\* The queue a driver works with has the rings it gave, page by page or half by half;
\* and if no driver dies with a queue it has enabled and not started, every driver
\* finds the queue idle once it has reset the device.
THEOREM FreshQueues == ~DieEarly /\ Safety => []FreshQueue
  <1>1. Init => Inv /\ IdleInv
    BY InitInv
  <1>2. ASSUME ~DieEarly PROVE Inv /\ IdleInv /\ [Next]_vars => (Inv /\ IdleInv)'
    BY <1>2, NextInv
  <1>3. Inv /\ IdleInv => FreshQueue
    BY DEF Inv, RingsInv, IdleInv, FreshQueue
  <1>4. SUFFICES ASSUME ~DieEarly PROVE Safety => []FreshQueue
    OBVIOUS
  <1>5. Inv /\ IdleInv /\ [Next]_vars => (Inv /\ IdleInv)'
    BY <1>2, <1>4
  <1> QED
    BY <1>1, <1>3, <1>5, PTL DEF Safety

\* Both windows of the features and both halves of the capacity: what a driver has
\* read is what the device has, and what it accepted is kept.
THEOREM DriversTold == Safety => []DriverTold
  <1>1. Init => Inv
    BY InitInv
  <1>2. Inv /\ [Next]_vars => Inv'
    BY NextInv
  <1>3. Inv => DriverTold
    <2> SUFFICES ASSUME Inv PROVE DriverTold
      OBVIOUS
    <2>1. Ended("negotiate") => seen = <<High, HostFeatures>>
      <3>1. todo = <<>> => Len(todo) = 0
        OBVIOUS
      <3> QED
        BY <3>1 DEF Inv, ScriptInv, NegotiateInv, Ended
    <2>2. drv = "bound" => drvFeatures \subseteq features /\ seen = Told
      BY DEF Inv, ScriptInv
    <2>3. Told[2] * Word + Told[1] = Capacity
      <3>1. (Capacity \div Word) * Word + (Capacity % Word) = Capacity
        BY Halves, MmioAssumption
      <3>2. Told[1] = Capacity % Word /\ Told[2] = Capacity \div Word
        BY DEF Told
      <3> QED
        BY <3>1, <3>2, Zenon
    <2>4. drv = "bound" => seen[2] * Word + seen[1] = Capacity
      BY <2>2, <2>3, Zenon
    <2> QED
      BY <2>1, <2>2, <2>4 DEF DriverTold, High
  <1> QED
    BY <1>1, <1>2, <1>3, PTL DEF Safety

\* Whenever a driver may die, the rings of a driver that is bound are its own.
THEOREM OwnRings ==
    Safety => [](drv = "bound" /\ main = "idle" /\ registered => enabled /\ vring = drvRings)
  <1>1. Init => Inv
    BY InitInv
  <1>2. Inv /\ [Next]_vars => Inv'
    BY NextInv
  <1>3. Inv => (drv = "bound" /\ main = "idle" /\ registered => enabled /\ vring = drvRings)
    BY DEF Inv, RingsInv
  <1> QED
    BY <1>1, <1>2, <1>3, PTL DEF Safety
=============================================================================
