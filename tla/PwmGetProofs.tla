---------------------------- MODULE PwmGetProofs ----------------------------
(***************************************************************************)
(* Machine-checked proofs about the calls of PwmCore: what pwm_get() finds *)
(* and grants, and what a detached consumer leaves behind, for every       *)
(* number of chips, modules, consumers and every board table.              *)
(***************************************************************************)
EXTENDS PwmCoreProofs

-----------------------------------------------------------------------------
(* The invariants of a call that is under way.                             *)

(* A detached consumer holds nothing, a consumer being detached only what  *)
(* devres is about to put.                                                 *)
Detaching ==
  \A k \in Consumers :
    /\ pc[k] = "unbound" => handles[k] = {}
    /\ pc[k] = "detach" => handles[k] = managed[k]

(* A task inside the scan holds pwm_lookup_lock.                           *)
LockHeld == \A k \in Consumers : pc[k] = "scan" => lookup_owner = k

(* Unless tasks are preempted, the chip the scan found is still there.     *)
ChipThere ==
  ~Preempt => \A k \in Consumers : pc[k] = "scan" => scan[k].chip \in pwms \union {NULL}

(* Entry i is the one whose provider and index the scan s has noted.       *)
Noted(i, s) ==
  LET e == pwm_lookup_list[i] IN
  /\ Applies(e, s.arg) /\ matched(e) > 0
  /\ s.chip = NULL \/ Name[s.chip] = e.provider
  /\ s.index = e.index

(* Among the entries before position n, none is more specific than entry i *)
(* and none of the earlier ones is as specific.                            *)
BestBefore(i, n, arg) ==
  \A j \in DOMAIN pwm_lookup_list :
    j < n /\ Applies(pwm_lookup_list[j], arg) =>
      /\ matched(pwm_lookup_list[j]) <= matched(pwm_lookup_list[i])
      /\ j < i => matched(pwm_lookup_list[j]) < matched(pwm_lookup_list[i])

NothingYet(s) ==
  /\ s.best = 0 /\ s.chip = NULL
  /\ \A j \in DOMAIN pwm_lookup_list :
       j < s.pos /\ Applies(pwm_lookup_list[j], s.arg) => matched(pwm_lookup_list[j]) = 0

BestYet(s) ==
  \E i \in DOMAIN pwm_lookup_list :
    /\ i < s.pos /\ Noted(i, s)
    /\ s.best = matched(pwm_lookup_list[i])
    /\ BestBefore(i, s.pos, s.arg)

(* An exact match ends the scan without looking at the rest of the table.  *)
ExactMatch(s) ==
  /\ s.pos = Len(pwm_lookup_list) + 1
  /\ \E i \in DOMAIN pwm_lookup_list : Noted(i, s) /\ MostSpecific(i, s.arg)

Scanned ==
  \A k \in Consumers :
    pc[k] = "scan" => \/ NothingYet(scan[k])
                      \/ BestYet(scan[k])
                      \/ ExactMatch(scan[k])

-----------------------------------------------------------------------------
(* Frames: the registry leaves the calls alone, a task those of the others.*)

LEMMA RegistryFrame ==
  Registry => UNCHANGED <<pc, scan, lookup_owner, handles, managed>>
BY DEF Registry, pwmchip_add, module_exit, driver_unbind, chip_driver_remove, delete_module,
       load_module, pwm_add_table, ownerVars, taskVars

(* The registry moves between the sections of a pwm_get() only on a        *)
(* preemptible kernel.                                                     *)
LEMMA RegistryQuiet ==
  ASSUME Registry, ~Preempt
  PROVE  \A k \in Consumers : pc[k] # "scan"
<1>1. Runnable(NULL)
  BY DEF Registry, pwmchip_add, module_exit, driver_unbind, chip_driver_remove, CanLock,
         delete_module, load_module, pwm_add_table
<1>2. NULL \notin Consumers BY CoreAssumption
<1> QED BY <1>1, <1>2 DEF Runnable

LEMMA OthersFrame ==
  ASSUME TypeOK, NEW k \in Consumers, Consumer(k) \/ Continue(k),
         NEW j \in Consumers, j # k
  PROVE  /\ handles'[j] = handles[j] /\ managed'[j] = managed[j]
         /\ pc'[j] = pc[j] /\ scan'[j] = scan[j]
BY DEF Consumer, Continue, driver_bind, driver_detach, pwm_request, pwm_request_from_chip,
       pwm_get, pwm_put, devm_pwm_put, UseAfterFree, GetSkip, GetMatch, GetFinish, GetReturn,
       devm_pwm_release, detach_done, Put, pwm_device_request, devres_add, devres_remove,
       ownerVars, taskVars, TypeOK

LEMMA MatchedRange == \A e : matched(e) \in 0 .. 3
BY DEF matched

-----------------------------------------------------------------------------
(* Detaching.                                                              *)

LEMMA DetachingNext == CoreInv /\ Detaching /\ [Next]_vars => Detaching'
<1> SUFFICES ASSUME CoreInv, Detaching, [Next]_vars PROVE Detaching' OBVIOUS
<1>0. TypeOK BY DEF CoreInv
<1>1. CASE Registry BY <1>1, RegistryFrame DEF Detaching
<1>2. ASSUME NEW k \in Consumers, Consumer(k) \/ Continue(k) PROVE Detaching'
  <2>1. SUFFICES /\ pc'[k] = "unbound" => handles'[k] = {}
                 /\ pc'[k] = "detach" => handles'[k] = managed'[k]
    BY <1>0, <1>2, OthersFrame DEF Detaching
  <2>2. CASE driver_bind(k) \/ driver_detach(k) \/ detach_done(k) \/ UseAfterFree(k)
    BY <1>0, <2>2 DEF driver_bind, driver_detach, detach_done, UseAfterFree, ownerVars,
       Detaching, TypeOK
  <2>3. CASE devm_pwm_release(k)
    BY <1>0, <2>3 DEF devm_pwm_release, Put, devres_remove, taskVars, Detaching, TypeOK
  <2>4. CASE \/ \E n \in 0 .. MaxPwms - 1 : pwm_request(k, n)
             \/ \E c \in Chips, i \in 0 .. MaxPwms - 1 : pwm_request_from_chip(k, c, i)
             \/ \E p \in Pwm : pwm_put(k, p) \/ devm_pwm_put(k, p)
    BY <2>4 DEF pwm_request, pwm_request_from_chip, pwm_put, devm_pwm_put, taskVars
  <2>5. CASE \/ \E arg \in GetArgs, devm \in BOOLEAN : pwm_get(k, arg, devm)
             \/ GetSkip(k) \/ GetMatch(k) \/ GetFinish(k)
    <3>1. pc'[k] \in {"scan", "idle", "oops"}
      BY <1>0, <2>5 DEF pwm_get, GetSkip, GetMatch, GetFinish, GetReturn, TypeOK
    <3> QED BY <3>1
  <2> QED BY <1>2, <2>2, <2>3, <2>4, <2>5 DEF Consumer, Continue
<1>3. CASE UNCHANGED vars BY <1>3 DEF vars, taskVars, ownerVars, Detaching
<1> QED BY <1>1, <1>2, <1>3 DEF Next

(* When every consumer's driver is detached, no module is referenced any   *)
(* more: each can be unloaded (devres_release_all, pwm_put).               *)
THEOREM DetachReleases == Spec => []DetachedReleasesAll
<1>1. Init => Detaching BY DEF Init, Detaching
<1>2. CoreInv /\ Detaching => DetachedReleasesAll
  <2> SUFFICES ASSUME CoreInv, Detaching, \A k \in Consumers : pc[k] = "unbound",
                      NEW m \in Modules
               PROVE  refs[m] = 0
    BY DEF DetachedReleasesAll
  <2>1. requested = {}
    BY DEF CoreInv, TypeOK, Ownership, ExclusiveOwnership, Detaching
  <2>2. RequestedFrom(m) = {} BY <2>1 DEF RequestedFrom
  <2> QED BY <2>2, FS_EmptySet DEF CoreInv, Counted, RefsMatchRequests
<1> QED BY CoreInvariant, <1>1, <1>2, DetachingNext, PTL DEF Spec

-----------------------------------------------------------------------------
(* The chip a scan has found.                                              *)

LEMMA ChipThereNext == CoreInv /\ ChipThere /\ [Next]_vars => ChipThere'
<1> SUFFICES ASSUME CoreInv, ChipThere, [Next]_vars, ~Preempt PROVE ChipThere'
  BY DEF ChipThere
<1>0. TypeOK /\ pwm_chips = pwms BY DEF CoreInv, RegistryConsistent
<1>1. CASE Registry
  BY <1>1, RegistryFrame, RegistryQuiet DEF ChipThere
<1>2. ASSUME NEW k \in Consumers, Consumer(k) \/ Continue(k) PROVE ChipThere'
  <2>1. UNCHANGED pwms BY <1>2, ConsumerFrame DEF registryVars
  <2>2. SUFFICES ASSUME pc'[k] = "scan" PROVE scan'[k].chip \in pwms \union {NULL}
    BY <1>0, <1>2, <2>1, OthersFrame DEF ChipThere
  <2>3. ASSUME NEW arg \in GetArgs, NEW devm \in BOOLEAN, pwm_get(k, arg, devm)
        PROVE  scan'[k].chip = NULL
    BY <1>0, <2>3 DEF pwm_get, NoScan, TypeOK
  <2>4. CASE GetSkip(k)
    BY <1>0, <2>1, <2>4 DEF GetSkip, TypeOK, Scans, ChipThere
  <2>5. CASE GetMatch(k)
    <3>1. PICK name : scan'[k].chip \in pwmchip_find_by_name(name)
      BY <1>0, <2>5 DEF GetMatch, TypeOK, Scans
    <3>2. \A c \in pwmchip_find_by_name(name) : c \in pwms \union {NULL}
      BY <1>0 DEF pwmchip_find_by_name, Named
    <3> QED BY <3>1, <3>2
  <2>6. CASE GetFinish(k) \/ UseAfterFree(k)
    BY <1>0, <2>2, <2>6 DEF GetFinish, GetReturn, UseAfterFree, TypeOK
  <2>7. CASE driver_bind(k) \/ driver_detach(k) \/ detach_done(k)
    BY <1>0, <2>2, <2>7 DEF driver_bind, driver_detach, detach_done, TypeOK
  <2>8. CASE \/ \E n \in 0 .. MaxPwms - 1 : pwm_request(k, n)
             \/ \E c \in Chips, i \in 0 .. MaxPwms - 1 : pwm_request_from_chip(k, c, i)
             \/ \E p \in Pwm : pwm_put(k, p) \/ devm_pwm_put(k, p)
             \/ devm_pwm_release(k)
    <3>1. UNCHANGED <<pc, scan>>
      BY <2>8 DEF pwm_request, pwm_request_from_chip, pwm_put, devm_pwm_put,
         devm_pwm_release, taskVars
    <3> QED BY <2>2, <3>1 DEF ChipThere
  <2> QED BY <1>2, <2>3, <2>4, <2>5, <2>6, <2>7, <2>8 DEF Consumer, Continue
<1>3. CASE UNCHANGED vars BY <1>3 DEF vars, taskVars, registryVars, ChipThere
<1> QED BY <1>1, <1>2, <1>3 DEF Next

(* On a kernel like that of the checked-in pwm.ko, and without an unbind   *)
(* of a driver in use, pwm_get() never uses a chip that is gone: no task   *)
(* dies with a lock held (core.c:520-618).                                 *)
THEOREM GetIsSafe ==
  ASSUME ~Preempt, ~SysfsUnbind
  PROVE  Spec => []GetNeverFaults
<1>1. Init => ChipThere /\ GetNeverFaults BY DEF Init, ChipThere, GetNeverFaults
<1>2. CoreInv /\ ChipThere /\ GetNeverFaults /\ [Next]_vars => GetNeverFaults'
  <2> SUFFICES ASSUME CoreInv, ChipThere, GetNeverFaults, [Next]_vars
               PROVE  GetNeverFaults'
    OBVIOUS
  <2>0. TypeOK /\ stale = {} BY DEF CoreInv, Unloading
  <2>1. CASE Registry BY <2>1, RegistryFrame DEF GetNeverFaults
  <2>2. ASSUME NEW k \in Consumers, Consumer(k) \/ Continue(k) PROVE GetNeverFaults'
    <3>1. SUFFICES pc'[k] # "oops"
      BY <2>0, <2>2, OthersFrame DEF GetNeverFaults
    <3>2. CASE GetFinish(k)
      <4>1. scan[k].chip \in pwms \union {NULL}
        BY <3>2 DEF GetFinish, ChipThere
      <4>2. NULL \notin Chips BY CoreAssumption
      <4> QED BY <2>0, <3>2, <4>1, <4>2 DEF GetFinish, GetReturn, TypeOK
    <3>3. CASE ~GetFinish(k)
      BY <2>0, <2>2, <3>3
      DEF Consumer, Continue, driver_bind, driver_detach, pwm_request,
          pwm_request_from_chip, pwm_get, pwm_put, devm_pwm_put, UseAfterFree, GetSkip,
          GetMatch, devm_pwm_release, detach_done, taskVars, GetNeverFaults, TypeOK
    <3> QED BY <3>2, <3>3
  <2>3. CASE UNCHANGED vars BY <2>3 DEF vars, taskVars, GetNeverFaults
  <2> QED BY <2>1, <2>2, <2>3 DEF Next
<1> QED BY CoreInvariant, <1>1, <1>2, ChipThereNext, PTL DEF Spec

-----------------------------------------------------------------------------
(* The scan of the board table.                                            *)

LEMMA LockNext == TypeOK /\ LockHeld /\ [Next]_vars => LockHeld'
<1> SUFFICES ASSUME TypeOK, LockHeld, [Next]_vars PROVE LockHeld' OBVIOUS
<1>1. CASE Registry BY <1>1, RegistryFrame DEF LockHeld
<1>2. ASSUME NEW k \in Consumers, Consumer(k) \/ Continue(k) PROVE LockHeld'
  <2>1. SUFFICES /\ pc'[k] = "scan" => lookup_owner' = k
                 /\ lookup_owner' = lookup_owner \/ lookup_owner \in {k, NULL}
    BY <1>2, OthersFrame, CoreAssumption DEF LockHeld
  <2> QED
    BY <1>2
    DEF Consumer, Continue, driver_bind, driver_detach, pwm_request, pwm_request_from_chip,
        pwm_get, pwm_put, devm_pwm_put, UseAfterFree, GetSkip, GetMatch, GetFinish,
        GetReturn, devm_pwm_release, detach_done, taskVars, LockHeld, TypeOK
<1>3. CASE UNCHANGED vars BY <1>3 DEF vars, taskVars, LockHeld
<1> QED BY <1>1, <1>2, <1>3 DEF Next

(* The table does not change while a task scans it.                        *)
LEMMA TableFixed ==
  ASSUME LockHeld, [Next]_vars, NEW k \in Consumers, pc[k] = "scan"
  PROVE  pwm_lookup_list' = pwm_lookup_list
<1>1. lookup_owner # NULL BY CoreAssumption DEF LockHeld
<1>2. CASE Registry
  BY <1>1, <1>2 DEF Registry, pwmchip_add, module_exit, driver_unbind, chip_driver_remove,
     delete_module, load_module, pwm_add_table
<1>3. ASSUME NEW j \in Consumers, Consumer(j) \/ Continue(j)
      PROVE  pwm_lookup_list' = pwm_lookup_list
  BY <1>3, ConsumerFrame
<1> QED BY <1>2, <1>3 DEF Next, vars

LEMMA ScanSkip ==
  ASSUME TypeOK, NEW k \in Consumers, GetSkip(k),
         NothingYet(scan[k]) \/ BestYet(scan[k]) \/ ExactMatch(scan[k])
  PROVE  NothingYet(scan[k])' \/ BestYet(scan[k])'
<1> DEFINE s == scan[k]
           t == scan'[k]
           T == pwm_lookup_list
<1>1. /\ s.pos \in Nat /\ s.pos <= Len(T) /\ Len(T) \in Nat
      /\ ~(Applies(T[s.pos], s.arg) /\ matched(T[s.pos]) > s.best)
      /\ t = [s EXCEPT !.pos = s.pos + 1]
      /\ pwm_lookup_list' = T
  BY DEF GetSkip, Better, NextEntry, TypeOK, Scans
<1>2. /\ t.pos = s.pos + 1 /\ t.arg = s.arg /\ t.best = s.best
      /\ t.chip = s.chip /\ t.index = s.index
  BY <1>1 DEF TypeOK, Scans
<1>3. DOMAIN T = 1 .. Len(T) BY DEF TypeOK
<1>4. ~ExactMatch(s) BY <1>1 DEF ExactMatch
<1>5. CASE NothingYet(s)
  <2>1. \A j \in DOMAIN T : j < t.pos /\ Applies(T[j], t.arg) => matched(T[j]) = 0
    <3>1. Applies(T[s.pos], s.arg) => matched(T[s.pos]) = 0
      BY <1>1, <1>5, MatchedRange DEF NothingYet
    <3>2. \A j \in DOMAIN T : j < t.pos => j < s.pos \/ j = s.pos
      BY <1>1, <1>2, <1>3
    <3> QED BY <1>2, <1>5, <3>1, <3>2 DEF NothingYet
  <2> QED BY <1>1, <1>2, <1>5, <2>1 DEF NothingYet
<1>6. CASE BestYet(s)
  <2>1. PICK i \in DOMAIN T : /\ i < s.pos /\ Noted(i, s)
                              /\ s.best = matched(T[i]) /\ BestBefore(i, s.pos, s.arg)
    BY <1>6 DEF BestYet
  <2>2. Noted(i, scan[k])' BY <1>1, <1>2, <2>1 DEF Noted, Applies, matched
  <2>3. BestBefore(i, t.pos, t.arg)
    <3>1. Applies(T[s.pos], s.arg) => matched(T[s.pos]) <= matched(T[i])
      BY <1>1, <2>1, MatchedRange
    <3>2. \A j \in DOMAIN T : j < t.pos => j < s.pos \/ j = s.pos
      BY <1>1, <1>2, <1>3
    <3> HIDE DEF s, t, T
    <3> QED BY <1>1, <1>2, <1>3, <2>1, <3>1, <3>2 DEF BestBefore, T
  <2>4. BestBefore(i, scan[k].pos, scan[k].arg)' BY <1>1, <2>3 DEF BestBefore
  <2>5. i < t.pos BY <1>1, <1>2, <1>3, <2>1
  <2> QED BY <1>1, <1>2, <2>1, <2>2, <2>4, <2>5 DEF BestYet, matched
<1> QED BY <1>4, <1>5, <1>6

LEMMA ScanMatch ==
  ASSUME TypeOK, NEW k \in Consumers, GetMatch(k),
         NothingYet(scan[k]) \/ BestYet(scan[k]) \/ ExactMatch(scan[k])
  PROVE  BestYet(scan[k])' \/ ExactMatch(scan[k])'
<1> DEFINE s == scan[k]
           t == scan'[k]
           T == pwm_lookup_list
<1>0. PICK i \in Nat : i = s.pos BY DEF TypeOK, Scans
<1>1. /\ i \in Nat \ {0} /\ i <= Len(T) /\ Len(T) \in Nat /\ s.best \in 0 .. 2
      /\ Applies(T[i], s.arg) /\ matched(T[i]) > s.best
      /\ pwm_lookup_list' = T
  BY <1>0 DEF GetMatch, Better, TypeOK, Scans
<1>2. /\ t.arg = s.arg /\ t.index = T[i].index
      /\ t.chip \in pwmchip_find_by_name(T[i].provider)
      /\ t.best = IF matched(T[i]) # 3 THEN matched(T[i]) ELSE s.best
      /\ t.pos = IF matched(T[i]) # 3 THEN i + 1 ELSE Len(T) + 1
  BY <1>0 DEF GetMatch, TypeOK, Scans
<1>3. i \in DOMAIN T /\ DOMAIN T = 1 .. Len(T) BY <1>1 DEF TypeOK
<1>4. Noted(i, scan[k])'
  <2>1. t.chip = NULL \/ Name[t.chip] = T[i].provider
    BY <1>2 DEF pwmchip_find_by_name, Named
  <2> QED BY <1>1, <1>2, <1>3, <2>1, MatchedRange DEF Noted, Applies, matched
<1>5. \A j \in DOMAIN T : j < i /\ Applies(T[j], s.arg) => matched(T[j]) < matched(T[i])
  <2>1. CASE NothingYet(s) BY <1>0, <1>1, <2>1, MatchedRange DEF NothingYet
  <2>2. CASE BestYet(s)
    <3>1. PICK b \in DOMAIN T : s.best = matched(T[b]) /\ BestBefore(b, i, s.arg)
      BY <1>0, <2>2 DEF BestYet
    <3>2. \A j \in DOMAIN T : j < i /\ Applies(T[j], s.arg) => matched(T[j]) <= s.best
      BY <3>1 DEF BestBefore
    <3> QED BY <1>1, <3>2, MatchedRange
  <2>3. ~ExactMatch(s) BY <1>0, <1>1 DEF ExactMatch
  <2> QED BY <2>1, <2>2, <2>3
<1>6. CASE matched(T[i]) = 3
  <2>1. MostSpecific(i, s.arg)
    BY <1>1, <1>3, <1>5, <1>6, MatchedRange DEF MostSpecific
  <2>2. MostSpecific(i, scan[k].arg)'
    BY <1>1, <1>2, <2>1 DEF MostSpecific, Applies, matched
  <2> QED BY <1>1, <1>2, <1>3, <1>4, <1>6, <2>2 DEF ExactMatch
<1>7. CASE matched(T[i]) # 3
  <2>1. t.pos = i + 1 /\ t.best = matched(T[i]) BY <1>2, <1>7
  <2>2. BestBefore(i, t.pos, t.arg)
    <3>1. \A j \in DOMAIN T : j < i + 1 => j < i \/ j = i BY <1>1, <1>3
    <3>2. \A j \in DOMAIN T : matched(T[j]) \in 0 .. 3 BY MatchedRange
    <3>3. ~(i < i) BY <1>1
    <3> HIDE DEF s, t, T
    <3> QED BY <1>2, <1>3, <1>5, <2>1, <3>1, <3>2, <3>3 DEF BestBefore, T
  <2>3. BestBefore(i, scan[k].pos, scan[k].arg)' BY <1>1, <2>2 DEF BestBefore
  <2>4. i < t.pos BY <1>1, <2>1
  <2> QED BY <1>1, <1>3, <1>4, <2>1, <2>3, <2>4 DEF BestYet, matched
<1> QED BY <1>6, <1>7

LEMMA ScanStays ==
  ASSUME NEW k \in Consumers, UNCHANGED pwm_lookup_list, scan'[k] = scan[k],
         NothingYet(scan[k]) \/ BestYet(scan[k]) \/ ExactMatch(scan[k])
  PROVE  (NothingYet(scan[k]) \/ BestYet(scan[k]) \/ ExactMatch(scan[k]))'
<1>1. CASE NothingYet(scan[k]) BY <1>1 DEF NothingYet
<1>2. CASE BestYet(scan[k]) BY <1>2 DEF BestYet, Noted, BestBefore
<1>3. CASE ExactMatch(scan[k]) BY <1>3 DEF ExactMatch, Noted, MostSpecific
<1> QED BY <1>1, <1>2, <1>3

LEMMA ScanStart ==
  ASSUME TypeOK, NEW k \in Consumers, NEW arg \in GetArgs, NEW devm \in BOOLEAN,
         pwm_get(k, arg, devm)
  PROVE  NothingYet(scan[k])'
<1>1. /\ scan'[k].best = 0 /\ scan'[k].chip = NULL /\ scan'[k].pos = 1
      /\ UNCHANGED pwm_lookup_list
  BY DEF pwm_get, NoScan, TypeOK
<1>2. \A j \in DOMAIN pwm_lookup_list : ~(j < 1) BY DEF TypeOK
<1> QED BY <1>1, <1>2 DEF NothingYet

LEMMA ScannedNext == TypeOK /\ LockHeld /\ Scanned /\ [Next]_vars => Scanned'
<1> SUFFICES ASSUME TypeOK, LockHeld, Scanned, [Next]_vars,
                    NEW k \in Consumers, pc'[k] = "scan"
             PROVE  (NothingYet(scan[k]) \/ BestYet(scan[k]) \/ ExactMatch(scan[k]))'
  BY DEF Scanned
<1>1. CASE pc[k] = "scan" /\ scan'[k] = scan[k]
  BY <1>1, TableFixed, ScanStays DEF Scanned
<1>2. CASE Registry BY <1>1, <1>2, RegistryFrame
<1>3. ASSUME NEW j \in Consumers, Consumer(j) \/ Continue(j), j # k
      PROVE  pc[k] = "scan" /\ scan'[k] = scan[k]
  BY <1>3, OthersFrame
<1>4. CASE Consumer(k) \/ Continue(k)
  <2>1. ASSUME NEW arg \in GetArgs, NEW devm \in BOOLEAN, pwm_get(k, arg, devm)
        PROVE  NothingYet(scan[k])'
    BY <2>1, ScanStart
  <2>2. CASE GetSkip(k) \/ GetMatch(k)
    BY <2>2, ScanSkip, ScanMatch DEF Scanned, GetSkip, GetMatch
  <2>3. CASE \/ driver_bind(k) \/ driver_detach(k) \/ detach_done(k)
             \/ UseAfterFree(k) \/ GetFinish(k)
    BY <2>3 DEF driver_bind, driver_detach, detach_done, UseAfterFree, GetFinish, GetReturn,
       TypeOK
  <2>4. CASE \/ \E n \in 0 .. MaxPwms - 1 : pwm_request(k, n)
             \/ \E c \in Chips, i \in 0 .. MaxPwms - 1 : pwm_request_from_chip(k, c, i)
             \/ \E p \in Pwm : pwm_put(k, p) \/ devm_pwm_put(k, p)
             \/ devm_pwm_release(k)
    BY <1>1, <2>4 DEF pwm_request, pwm_request_from_chip, pwm_put, devm_pwm_put,
       devm_pwm_release, taskVars
  <2> QED BY <1>4, <2>1, <2>2, <2>3, <2>4 DEF Consumer, Continue
<1>5. CASE UNCHANGED vars BY <1>1, <1>5 DEF vars, taskVars
<1> QED BY <1>1, <1>2, <1>3, <1>4, <1>5 DEF Next

LEMMA ScanEnds ==
  ASSUME TypeOK, NEW k \in Consumers,
         scan[k].pos > Len(pwm_lookup_list), scan[k].chip # NULL,
         NothingYet(scan[k]) \/ BestYet(scan[k]) \/ ExactMatch(scan[k])
  PROVE  \E i \in DOMAIN pwm_lookup_list :
           /\ MostSpecific(i, scan[k].arg)
           /\ pwm_lookup_list[i].provider = Name[scan[k].chip]
           /\ pwm_lookup_list[i].index = scan[k].index
<1> DEFINE s == scan[k]
<1>1. CASE ExactMatch(s) BY <1>1 DEF ExactMatch, Noted
<1>2. CASE BestYet(s)
  <2>1. PICK i \in DOMAIN pwm_lookup_list : Noted(i, s) /\ BestBefore(i, s.pos, s.arg)
    BY <1>2 DEF BestYet
  <2>2. \A j \in DOMAIN pwm_lookup_list : j < s.pos
    BY DEF TypeOK, Scans
  <2>3. MostSpecific(i, s.arg)
    <3> HIDE DEF s
    <3> QED BY <2>1, <2>2 DEF MostSpecific, BestBefore, Noted
  <2> QED BY <2>1, <2>3 DEF Noted
<1>3. CASE NothingYet(s) BY <1>3 DEF NothingYet
<1> QED BY <1>1, <1>2, <1>3

(* The device pwm_get() grants is the one that the most specific entry of  *)
(* the table names, the first of equals, whatever else the table holds and *)
(* whatever happens between the sections of the call (core.c:551-604).     *)
THEOREM LookupGrants == Spec => LookupPicksMostSpecific
<1> DEFINE Inv == CoreInv /\ LockHeld /\ Scanned
           Picks(k) == pc[k] = "scan" /\ handles'[k] # handles[k] =>
                         \E i \in DOMAIN pwm_lookup_list :
                           /\ MostSpecific(i, scan[k].arg)
                           /\ \E c \in Chips :
                                /\ Name[c] = pwm_lookup_list[i].provider
                                /\ handles'[k] \ handles[k] =
                                     {<<c, pwm_lookup_list[i].index>>}
<1>1. Init => LockHeld /\ Scanned BY DEF Init, LockHeld, Scanned
<1>2. Inv /\ [Next]_vars => (LockHeld /\ Scanned)'
  BY LockNext, ScannedNext DEF CoreInv
<1>3. ASSUME Inv, [Next]_vars, NEW k \in Consumers PROVE Picks(k)
  <2> SUFFICES ASSUME pc[k] = "scan", handles'[k] # handles[k]
               PROVE  \E i \in DOMAIN pwm_lookup_list :
                        /\ MostSpecific(i, scan[k].arg)
                        /\ \E c \in Chips :
                             /\ Name[c] = pwm_lookup_list[i].provider
                             /\ handles'[k] \ handles[k] =
                                  {<<c, pwm_lookup_list[i].index>>}
    OBVIOUS
  <2>0. TypeOK BY <1>3 DEF CoreInv
  <2>1. ~Registry /\ ~UNCHANGED vars BY RegistryFrame DEF vars, ownerVars
  <2>2. PICK j \in Consumers : Consumer(j) \/ Continue(j) BY <1>3, <2>1 DEF Next
  <2>3. j = k BY <2>0, <2>2, OthersFrame
  <2>4. GetFinish(k)
    BY <2>2, <2>3
    DEF Consumer, Continue, driver_bind, driver_detach, pwm_request, pwm_request_from_chip,
        pwm_get, pwm_put, devm_pwm_put, UseAfterFree, GetSkip, GetMatch, devm_pwm_release,
        detach_done, ownerVars
  <2>5. /\ scan[k].pos > Len(pwm_lookup_list)
        /\ scan[k].chip \in pwms /\ scan[k].index < Npwm[scan[k].chip]
        /\ pwm_device_request(k, <<scan[k].chip, scan[k].index>>, scan[k].devm)
    BY <2>4 DEF GetFinish, ownerVars
  <2> DEFINE p == <<scan[k].chip, scan[k].index>>
  <2>6. p \in Pwm /\ scan[k].chip # NULL
    <3>1. scan[k].index \in Nat /\ scan[k].chip \in Chips
      BY <2>0, <2>5 DEF TypeOK, Scans
    <3> QED BY <2>5, <3>1, PwmIntro, CoreAssumption
  <2>7. p \notin requested /\ handles'[k] = handles[k] \union {p}
    BY <2>0, <2>5 DEF pwm_device_request, AlreadyRequested, ownerVars, TypeOK
  <2>8. p \notin handles[k]
    BY <1>3, <2>6, <2>7 DEF CoreInv, Ownership, ExclusiveOwnership
  <2>9. handles'[k] \ handles[k] = {p} BY <2>7, <2>8
  <2>10. NothingYet(scan[k]) \/ BestYet(scan[k]) \/ ExactMatch(scan[k])
    BY <1>3 DEF Scanned
  <2>11. PICK i \in DOMAIN pwm_lookup_list :
           /\ MostSpecific(i, scan[k].arg)
           /\ pwm_lookup_list[i].provider = Name[scan[k].chip]
           /\ pwm_lookup_list[i].index = scan[k].index
    BY <2>0, <2>5, <2>6, <2>10, ScanEnds
  <2>12. scan[k].chip \in Chips BY <2>0, <2>5 DEF TypeOK
  <2> QED BY <2>9, <2>11, <2>12
<1>4. Inv /\ [Next]_vars => [\A k \in Consumers : Picks(k)]_vars
  BY <1>3
<1> QED BY CoreInvariant, <1>1, <1>2, <1>4, PTL DEF Spec, LookupPicksMostSpecific
=============================================================================
