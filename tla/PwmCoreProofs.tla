---------------------------- MODULE PwmCoreProofs ----------------------------
(***************************************************************************)
(* Machine-checked proofs about PwmCore, for every number of chips,        *)
(* modules, consumers, PWM numbers and every board table.                  *)
(***************************************************************************)
EXTENDS PwmCore, FiniteSetTheorems, TLAPS

-----------------------------------------------------------------------------
(* What the operators of the registry return.                              *)

(* alloc_pwms() returns a run that fits and is free (core.c:50-71).        *)
LEMMA AllocFits ==
  ASSUME NEW b \in Bases, NEW count \in 1 .. MaxPwms, NEW start \in alloc_pwms(b, count)
  PROVE  /\ start \in 0 .. MaxPwms - 1
         /\ Numbers(start, count) \subseteq 0 .. MaxPwms - 1
         /\ Numbers(start, count) \intersect allocated_pwms = {}
<1>1. b \in Int /\ MaxPwms \in Nat BY CoreAssumption
<1>2. start \in FreeAreas(IF b >= 0 THEN b ELSE 0, count)
  BY DEF alloc_pwms, bitmap_find_next_zero_area
<1> QED BY <1>1, <1>2 DEF FreeAreas, Numbers

LEMMA PwmFacts ==
  ASSUME NEW p \in Pwm
  PROVE  /\ p = <<p[1], p[2]>>
         /\ p[1] \in Chips
         /\ p[2] \in Nat /\ p[2] < Npwm[p[1]]
         /\ Npwm[p[1]] \in 1 .. MaxPwms
         /\ Owner[p[1]] \in Modules
         /\ p # NULL
BY CoreAssumption DEF Pwm

LEMMA PwmIntro ==
  ASSUME NEW c \in Chips, NEW i \in Nat, i < Npwm[c]
  PROVE  <<c, i>> \in Pwm
BY CoreAssumption DEF Pwm

LEMMA NoScanType == NoScan \in Scans
BY DEF NoScan, Scans, GetArgs

-----------------------------------------------------------------------------
(* Type correctness.                                                       *)

LEMMA TypeInit == Init => TypeOK
BY CoreAssumption, NoScanType DEF Init, TypeOK, PcStates

LEMMA TypeRegistry == TypeOK /\ Registry => TypeOK'
<1> SUFFICES ASSUME TypeOK, Registry PROVE TypeOK' OBVIOUS
<1> USE DEF registryVars, ownerVars, taskVars
<1>1. ASSUME NEW c \in Chips, NEW b \in Bases, pwmchip_add(c, b)
      PROVE  TypeOK'
  <2>1. PICK start \in alloc_pwms(b, Npwm[c]) :
          /\ \E inserted \in SUBSET Numbers(start, Npwm[c]) :
               pwm_tree' = [n \in DOMAIN pwm_tree |->
                              IF n \in inserted THEN <<c, n - start>> ELSE pwm_tree[n]]
          /\ base' = [base EXCEPT ![c] = start]
          /\ allocated_pwms' = allocated_pwms \union Numbers(start, Npwm[c])
    BY <1>1 DEF pwmchip_add
  <2>2. Npwm[c] \in 1 .. MaxPwms /\ MaxPwms \in Nat BY CoreAssumption
  <2>3. /\ start \in 0 .. MaxPwms - 1
        /\ Numbers(start, Npwm[c]) \subseteq 0 .. MaxPwms - 1
    BY <2>2, AllocFits
  <2>4. PICK inserted \in SUBSET Numbers(start, Npwm[c]) :
          pwm_tree' = [n \in DOMAIN pwm_tree |->
                         IF n \in inserted THEN <<c, n - start>> ELSE pwm_tree[n]]
    BY <2>1
  <2>5. ASSUME NEW n \in inserted PROVE <<c, n - start>> \in Pwm
    BY <2>2, <2>3, <2>4, PwmIntro DEF Numbers
  <2>6. pwm_tree' \in [0 .. MaxPwms - 1 -> Pwm \union {NULL}]
    BY <2>4, <2>5 DEF TypeOK
  <2>7. base' \in [Chips -> -1 .. MaxPwms - 1]
    BY <2>1, <2>2, <2>3 DEF TypeOK
  <2> QED BY <1>1, <2>1, <2>3, <2>6, <2>7 DEF pwmchip_add, TypeOK
<1>2. ASSUME NEW c \in Chips, chip_driver_remove(c) PROVE TypeOK'
  <2>1. -1 \in -1 .. MaxPwms - 1 BY CoreAssumption
  <2>2. pwm_tree' \in [0 .. MaxPwms - 1 -> Pwm \union {NULL}]
    BY <1>2 DEF chip_driver_remove, free_pwms, TreeWithout, TypeOK
  <2>3. base' \in [Chips -> -1 .. MaxPwms - 1]
    BY <1>2, <2>1 DEF chip_driver_remove, TypeOK
  <2>4. /\ pwm_chips' \subseteq Chips /\ pwms' \subseteq Chips /\ stale' \subseteq Chips
        /\ requested' \subseteq Pwm /\ allocated_pwms' \subseteq 0 .. MaxPwms - 1
    BY <1>2 DEF chip_driver_remove, free_pwms, list_del_init, TypeOK
  <2>5. UNCHANGED <<refs, handles, managed, taskVars, modstate, pwm_lookup_list>>
    BY <1>2 DEF chip_driver_remove
  <2> QED BY <2>2, <2>3, <2>4, <2>5 DEF TypeOK
<1>3. ASSUME NEW m \in Modules, delete_module(m) \/ load_module(m) PROVE TypeOK'
  BY <1>3 DEF delete_module, load_module, TypeOK
<1>4. ASSUME pwm_add_table PROVE TypeOK'
  BY <1>4, CoreAssumption DEF pwm_add_table, TypeOK
<1> QED BY <1>1, <1>2, <1>3, <1>4 DEF Registry, module_exit, driver_unbind

LEMMA TypeRequest ==
  ASSUME NEW k \in Consumers, NEW p \in Pwm, NEW devm \in BOOLEAN, TypeOK,
         pwm_device_request(k, p, devm)
  PROVE  /\ requested' \subseteq Pwm
         /\ refs' \in [Modules -> Int]
         /\ handles' \in [Consumers -> SUBSET Pwm]
         /\ managed' \in [Consumers -> SUBSET Pwm]
<1> DEFINE m == Owner[p[1]]
<1>1. m \in Modules BY PwmFacts
<1>2. try_module_get(m) \in [Modules -> Int] /\ RefsAfterFailedCallback(m) \in [Modules -> Int]
  BY <1>1 DEF try_module_get, module_put, RefsAfterFailedCallback, TypeOK
<1>3. devres_add(k, p) \in [Consumers -> SUBSET Pwm]
  BY DEF devres_add, TypeOK
<1> QED BY <1>2, <1>3 DEF pwm_device_request, ownerVars, TypeOK

LEMMA TypePut ==
  ASSUME NEW k \in Consumers, NEW p \in Pwm, TypeOK, Put(k, p)
  PROVE  /\ requested' \subseteq Pwm
         /\ refs' \in [Modules -> Int]
         /\ handles' \in [Consumers -> SUBSET Pwm]
BY DEF Put, RefsAfterPut, module_put, TypeOK

(* Every step of a consumer leaves the registry alone.                     *)
LEMMA ConsumerFrame ==
  ASSUME NEW k \in Consumers, Consumer(k) \/ Continue(k)
  PROVE  UNCHANGED <<registryVars, modstate, pwm_lookup_list>>
BY DEF Consumer, Continue, driver_bind, driver_detach, pwm_request, pwm_request_from_chip,
       pwm_get, pwm_put, devm_pwm_put, UseAfterFree, GetSkip, GetMatch, GetFinish,
       devm_pwm_release, detach_done, registryVars

(* What a consumer's step does to the ownership: nothing, a request for a  *)
(* device of a chip whose array exists, or a put of a device it holds.     *)
LEMMA ConsumerOwnership ==
  ASSUME NEW k \in Consumers, TypeOK, RegistryConsistent, Consumer(k) \/ Continue(k)
  PROVE  \/ UNCHANGED ownerVars
         \/ \E p \in Pwm, devm \in BOOLEAN :
              p[1] \in pwms /\ pwm_device_request(k, p, devm)
         \/ \E p \in handles[k] \ managed[k] : Put(k, p) /\ UNCHANGED managed
         \/ \E p \in managed[k] : Put(k, p) /\ managed' = devres_remove(k, p)
<1>1. ASSUME NEW n \in 0 .. MaxPwms - 1, pwm_request(k, n)
      PROVE  \E p \in Pwm : p[1] \in pwms /\ pwm_device_request(k, p, FALSE)
  BY <1>1 DEF pwm_request, TypeOK, RegistryConsistent
<1>2. ASSUME NEW c \in Chips, NEW i \in 0 .. MaxPwms - 1, pwm_request_from_chip(k, c, i)
      PROVE  \E p \in Pwm : p[1] \in pwms /\ pwm_device_request(k, p, FALSE)
  <2>1. <<c, i>> \in Pwm BY <1>2, PwmIntro, CoreAssumption DEF pwm_request_from_chip
  <2> QED BY <1>2, <2>1 DEF pwm_request_from_chip
<1>3. ASSUME GetFinish(k)
      PROVE  \/ UNCHANGED ownerVars
             \/ \E p \in Pwm, devm \in BOOLEAN :
                  p[1] \in pwms /\ pwm_device_request(k, p, devm)
  <2>1. scan[k].index \in Nat /\ scan[k].devm \in BOOLEAN /\ pwms \subseteq Chips
    BY DEF TypeOK, Scans
  <2>2. CASE UNCHANGED ownerVars BY <2>2
  <2>3. CASE /\ scan[k].chip \in pwms /\ scan[k].index < Npwm[scan[k].chip]
             /\ pwm_device_request(k, <<scan[k].chip, scan[k].index>>, scan[k].devm)
    <3>1. <<scan[k].chip, scan[k].index>> \in Pwm BY <2>1, <2>3, PwmIntro
    <3> QED BY <2>1, <2>3, <3>1
  <2> QED BY <1>3, <2>2, <2>3 DEF GetFinish
<1>4. ASSUME NEW p \in Pwm, pwm_put(k, p) \/ devm_pwm_put(k, p)
      PROVE  \/ \E q \in handles[k] \ managed[k] : Put(k, q) /\ UNCHANGED managed
             \/ \E q \in managed[k] : Put(k, q) /\ managed' = devres_remove(k, q)
  BY <1>4 DEF pwm_put, devm_pwm_put
<1>5. ASSUME devm_pwm_release(k)
      PROVE  \E q \in managed[k] : Put(k, q) /\ managed' = devres_remove(k, q)
  BY <1>5 DEF devm_pwm_release
<1>6. ASSUME \/ driver_bind(k) \/ driver_detach(k) \/ UseAfterFree(k)
             \/ GetSkip(k) \/ GetMatch(k) \/ detach_done(k)
             \/ \E arg \in GetArgs, devm \in BOOLEAN : pwm_get(k, arg, devm)
      PROVE  UNCHANGED ownerVars
  BY <1>6 DEF driver_bind, driver_detach, UseAfterFree, GetSkip, GetMatch, detach_done, pwm_get
<1> QED BY <1>1, <1>2, <1>3, <1>4, <1>5, <1>6 DEF Consumer, Continue

LEMMA AdvanceType ==
  ASSUME NEW m \in 0 .. 3, NEW b \in 0 .. 2, NEW p \in Nat \ {0}, NEW n \in Nat
  PROVE  /\ (IF m # 3 THEN m ELSE b) \in 0 .. 2
         /\ (IF m # 3 THEN p + 1 ELSE n + 1) \in Nat \ {0}
OBVIOUS

(* The program counters and the locals of pwm_get keep their types.        *)
LEMMA TypeTask ==
  ASSUME NEW k \in Consumers, TypeOK, Consumer(k) \/ Continue(k)
  PROVE  /\ pc' \in [Consumers -> PcStates]
         /\ lookup_owner' \in Consumers \union {NULL}
         /\ scan' \in [Consumers -> Scans]
<1>1. ASSUME NEW arg \in GetArgs, NEW devm \in BOOLEAN, pwm_get(k, arg, devm)
      PROVE  /\ pc' \in [Consumers -> PcStates]
             /\ lookup_owner' \in Consumers \union {NULL}
             /\ scan' \in [Consumers -> Scans]
  <2>1. [NoScan EXCEPT !.arg = arg, !.devm = devm] \in Scans
    BY NoScanType DEF Scans, NoScan
  <2> QED BY <1>1, <2>1 DEF pwm_get, TypeOK, PcStates
<1>2. ASSUME GetSkip(k) PROVE scan' \in [Consumers -> Scans]
  <2>1. NextEntry(scan[k]) \in Nat \ {0} BY DEF NextEntry, TypeOK, Scans
  <2>2. [scan[k] EXCEPT !.pos = NextEntry(scan[k])] \in Scans BY <2>1 DEF TypeOK, Scans
  <2> QED BY <1>2, <2>2 DEF GetSkip, TypeOK
<1>3. ASSUME GetMatch(k) PROVE scan' \in [Consumers -> Scans]
  <2> DEFINE e == pwm_lookup_list[scan[k].pos]
             n == Len(pwm_lookup_list)
             best == IF matched(e) # 3 THEN matched(e) ELSE scan[k].best
             pos == IF matched(e) # 3 THEN scan[k].pos + 1 ELSE n + 1
  <2>1. /\ scan[k] \in Scans /\ scan[k].pos \in Nat \ {0} /\ scan[k].best \in 0 .. 2
        /\ pwm_lookup_list \in Seq(Entries) /\ n \in Nat
    BY DEF TypeOK, Scans
  <2>2. PICK chip \in pwmchip_find_by_name(e.provider) :
          scan' = [scan EXCEPT ![k] = [scan[k] EXCEPT
                     !.chip = chip, !.index = e.index, !.best = best, !.pos = pos]]
    BY <1>3 DEF GetMatch
  <2>3. chip \in Chips \union {NULL}
    BY <2>2 DEF pwmchip_find_by_name, Named, TypeOK
  <2>4. matched(e) \in 0 .. 3 BY DEF matched
  <2>5. best \in 0 .. 2 /\ pos \in Nat \ {0}
    <3> HIDE DEF e, n
    <3> QED BY <2>1, <2>4, AdvanceType, Zenon
  <2>6. e.index \in Nat
    <3>1. scan[k].pos <= n BY <1>3 DEF GetMatch
    <3>2. e \in Entries BY <2>1, <3>1
    <3> QED BY <3>2 DEF Entries
  <2> HIDE DEF e, n, best, pos
  <2>7. [scan[k] EXCEPT !.chip = chip, !.index = e.index, !.best = best, !.pos = pos]
          \in Scans
    BY <2>1, <2>3, <2>5, <2>6 DEF Scans
  <2> QED BY <2>2, <2>7 DEF TypeOK
<1>4. ASSUME GetFinish(k)
      PROVE  /\ pc' \in [Consumers -> PcStates]
             /\ lookup_owner' \in Consumers \union {NULL}
             /\ scan' \in [Consumers -> Scans]
  BY <1>4, NoScanType DEF GetFinish, GetReturn, TypeOK, PcStates
<1>5. ASSUME GetSkip(k) \/ GetMatch(k)
      PROVE  UNCHANGED <<pc, lookup_owner>>
  BY <1>5 DEF GetSkip, GetMatch
<1>6. ASSUME driver_bind(k) \/ driver_detach(k) \/ UseAfterFree(k) \/ detach_done(k)
      PROVE  UNCHANGED <<scan, lookup_owner>> /\ pc' \in [Consumers -> PcStates]
  BY <1>6 DEF driver_bind, driver_detach, UseAfterFree, detach_done, TypeOK, PcStates
<1>7. ASSUME \/ \E n \in 0 .. MaxPwms - 1 : pwm_request(k, n)
             \/ \E c \in Chips, i \in 0 .. MaxPwms - 1 : pwm_request_from_chip(k, c, i)
             \/ \E p \in Pwm : pwm_put(k, p) \/ devm_pwm_put(k, p)
             \/ devm_pwm_release(k)
      PROVE  UNCHANGED taskVars
  BY <1>7 DEF pwm_request, pwm_request_from_chip, pwm_put, devm_pwm_put, devm_pwm_release
<1> QED
  BY <1>1, <1>2, <1>3, <1>4, <1>5, <1>6, <1>7 DEF Consumer, Continue, taskVars, TypeOK

LEMMA TypeNext == TypeOK /\ RegistryConsistent /\ [Next]_vars => TypeOK'
<1> SUFFICES ASSUME TypeOK, RegistryConsistent, [Next]_vars PROVE TypeOK' OBVIOUS
<1>1. CASE Registry BY <1>1, TypeRegistry
<1>2. ASSUME NEW k \in Consumers, Consumer(k) \/ Continue(k) PROVE TypeOK'
  <2>1. /\ requested' \subseteq Pwm /\ refs' \in [Modules -> Int]
        /\ handles' \in [Consumers -> SUBSET Pwm]
        /\ managed' \in [Consumers -> SUBSET Pwm]
    <3>1. CASE UNCHANGED ownerVars BY <3>1 DEF ownerVars, TypeOK
    <3>2. ASSUME NEW p \in Pwm, NEW devm \in BOOLEAN, pwm_device_request(k, p, devm)
          PROVE <2>1
      BY <3>2, TypeRequest
    <3>3. ASSUME NEW p \in Pwm, Put(k, p),
                 UNCHANGED managed \/ managed' = devres_remove(k, p)
          PROVE <2>1
      BY <3>3, TypePut DEF devres_remove, TypeOK
    <3>4. handles[k] \subseteq Pwm /\ managed[k] \subseteq Pwm BY DEF TypeOK
    <3> QED BY <1>2, <3>1, <3>2, <3>3, <3>4, ConsumerOwnership
  <2> QED BY <1>2, <2>1, TypeTask, ConsumerFrame DEF TypeOK, registryVars
<1>3. CASE UNCHANGED vars
  BY <1>3 DEF vars, registryVars, ownerVars, taskVars, TypeOK
<1> QED BY <1>1, <1>2, <1>3 DEF Next

-----------------------------------------------------------------------------
(* The registry stays consistent.                                          *)

LEMMA RegistryInit == Init => RegistryConsistent
BY DEF Init, RegistryConsistent

LEMMA RegistryAdd ==
  ASSUME TypeOK, RegistryConsistent, NEW c \in Chips, NEW b \in Bases, pwmchip_add(c, b)
  PROVE  RegistryConsistent'
<1>1. PICK start \in alloc_pwms(b, Npwm[c]) :
        /\ \E inserted \in SUBSET Numbers(start, Npwm[c]) :
             pwm_tree' = [n \in DOMAIN pwm_tree |->
                            IF n \in inserted THEN <<c, n - start>> ELSE pwm_tree[n]]
        /\ base' = [base EXCEPT ![c] = start]
        /\ allocated_pwms' = allocated_pwms \union Numbers(start, Npwm[c])
  BY DEF pwmchip_add
<1>2. PICK inserted \in SUBSET Numbers(start, Npwm[c]) :
        pwm_tree' = [n \in DOMAIN pwm_tree |->
                       IF n \in inserted THEN <<c, n - start>> ELSE pwm_tree[n]]
  BY <1>1
<1>3. /\ start \in 0 .. MaxPwms - 1
      /\ Numbers(start, Npwm[c]) \subseteq 0 .. MaxPwms - 1
      /\ Numbers(start, Npwm[c]) \intersect allocated_pwms = {}
  <2>1. Npwm[c] \in 1 .. MaxPwms BY CoreAssumption
  <2> QED BY <2>1, AllocFits
<1>4. /\ c \notin pwms /\ pwms \subseteq Chips
      /\ pwms' = pwms \union {c} /\ pwm_chips' = pwms'
  BY DEF pwmchip_add, RegistryConsistent, TypeOK
<1>5. /\ NumbersOf(c)' = Numbers(start, Npwm[c])
      /\ \A d \in pwms : base'[d] = base[d] /\ NumbersOf(d)' = NumbersOf(d)
  BY <1>1, <1>4 DEF NumbersOf, TypeOK
<1>6. \A d \in pwms' : NumbersOf(d)' \subseteq allocated_pwms'
  BY <1>1, <1>4, <1>5 DEF RegistryConsistent
<1>7. \A n \in allocated_pwms' : \E d \in pwms' : n \in NumbersOf(d)'
  BY <1>1, <1>4, <1>5 DEF RegistryConsistent
<1>8. \A d, e \in pwms' : d # e => NumbersOf(d)' \intersect NumbersOf(e)' = {}
  BY <1>3, <1>4, <1>5 DEF RegistryConsistent
<1>9. ASSUME NEW n \in 0 .. MaxPwms - 1, pwm_tree'[n] # NULL
      PROVE  pwm_tree'[n][1] \in pwms' /\ n = base'[pwm_tree'[n][1]] + pwm_tree'[n][2]
  <2>1. CASE n \in inserted
    <3>1. pwm_tree'[n] = <<c, n - start>> BY <1>2, <2>1 DEF TypeOK
    <3>2. base'[c] = start BY <1>1 DEF TypeOK
    <3> QED BY <1>3, <1>4, <3>1, <3>2
  <2>2. CASE n \notin inserted
    <3>1. pwm_tree'[n] = pwm_tree[n] BY <1>2, <2>2 DEF TypeOK
    <3> QED BY <1>4, <1>5, <1>9, <3>1 DEF RegistryConsistent
  <2> QED BY <2>1, <2>2
<1> QED BY <1>4, <1>6, <1>7, <1>8, <1>9 DEF RegistryConsistent

LEMMA RegistryRemove ==
  ASSUME TypeOK, RegistryConsistent, NEW c \in Chips, chip_driver_remove(c), ~Busy(c)
  PROVE  RegistryConsistent'
<1>1. /\ c \in pwms /\ pwms \subseteq Chips
      /\ pwms' = pwms \ {c} /\ pwm_chips' = pwms'
      /\ base' = [base EXCEPT ![c] = -1]
      /\ allocated_pwms' = allocated_pwms \ NumbersOf(c)
      /\ pwm_tree' = TreeWithout(c)
  BY DEF chip_driver_remove, free_pwms, list_del_init, NumbersOf, RegistryConsistent, TypeOK
<1>2. \A d \in pwms' : base'[d] = base[d] /\ NumbersOf(d)' = NumbersOf(d)
  BY <1>1 DEF NumbersOf, TypeOK
<1>3. \A d \in pwms' : NumbersOf(d)' \subseteq allocated_pwms'
  BY <1>1, <1>2 DEF RegistryConsistent
<1>4. \A n \in allocated_pwms' : \E d \in pwms' : n \in NumbersOf(d)'
  BY <1>1, <1>2 DEF RegistryConsistent
<1>5. \A d, e \in pwms' : d # e => NumbersOf(d)' \intersect NumbersOf(e)' = {}
  BY <1>1, <1>2 DEF RegistryConsistent
<1>6. ASSUME NEW n \in 0 .. MaxPwms - 1, pwm_tree'[n] # NULL
      PROVE  pwm_tree'[n][1] \in pwms' /\ n = base'[pwm_tree'[n][1]] + pwm_tree'[n][2]
  <2>1. n \notin NumbersOf(c) /\ pwm_tree'[n] = pwm_tree[n]
    BY <1>1, <1>6 DEF TreeWithout, NumbersOf, TypeOK
  <2> DEFINE d == pwm_tree[n][1]
             i == pwm_tree[n][2]
  <2>2. d \in pwms /\ n = base[d] + i
    BY <1>6, <2>1 DEF RegistryConsistent
  <2>3. pwm_tree[n] \in Pwm BY <1>6, <2>1 DEF TypeOK
  <2>4. i \in Nat /\ i < Npwm[d] /\ Npwm[d] \in 1 .. MaxPwms BY <2>3, PwmFacts
  <2>5. base[d] \in -1 .. MaxPwms - 1 /\ MaxPwms \in Nat
    BY <1>1, <2>2, CoreAssumption DEF TypeOK
  <2>6. n \in NumbersOf(d)
    <3> HIDE DEF d, i
    <3> QED BY <2>2, <2>4, <2>5 DEF NumbersOf, Numbers
  <2>7. d # c BY <2>1, <2>6
  <2> QED BY <1>1, <1>2, <2>1, <2>2, <2>7
<1> QED BY <1>1, <1>3, <1>4, <1>5, <1>6 DEF RegistryConsistent

LEMMA RegistryNext == TypeOK /\ RegistryConsistent /\ [Next]_vars => RegistryConsistent'
<1> SUFFICES ASSUME TypeOK, RegistryConsistent, [Next]_vars PROVE RegistryConsistent'
  OBVIOUS
<1>1. CASE UNCHANGED registryVars
  BY <1>1 DEF registryVars, RegistryConsistent, NumbersOf
<1>2. ASSUME NEW c \in Chips, NEW b \in Bases, pwmchip_add(c, b)
      PROVE  RegistryConsistent'
  BY <1>2, RegistryAdd
<1>3. ASSUME NEW c \in Chips, chip_driver_remove(c) PROVE RegistryConsistent'
  <2>1. CASE ~Busy(c) BY <1>3, <2>1, RegistryRemove
  <2>2. CASE Busy(c)
    BY <1>3, <2>2 DEF chip_driver_remove, RegistryConsistent, NumbersOf
  <2> QED BY <2>1, <2>2
<1>4. ASSUME NEW m \in Modules, delete_module(m) \/ load_module(m)
      PROVE  RegistryConsistent'
  BY <1>1, <1>4 DEF delete_module, load_module
<1>5. CASE pwm_add_table BY <1>1, <1>5 DEF pwm_add_table
<1>6. ASSUME NEW k \in Consumers, Consumer(k) \/ Continue(k) PROVE RegistryConsistent'
  BY <1>1, <1>6, ConsumerFrame
<1>7. CASE UNCHANGED vars BY <1>1, <1>7 DEF vars
<1> QED
  BY <1>2, <1>3, <1>4, <1>5, <1>6, <1>7 DEF Next, Registry, module_exit, driver_unbind

(* Every variable keeps its type, whatever the chips, their drivers and    *)
(* their consumers do (core.c).                                            *)
THEOREM TypeCorrect == Spec => []TypeOK
<1>1. Init => TypeOK /\ RegistryConsistent BY TypeInit, RegistryInit
<1>2. TypeOK /\ RegistryConsistent /\ [Next]_vars => (TypeOK /\ RegistryConsistent)'
  BY TypeNext, RegistryNext
<1> QED BY <1>1, <1>2, PTL DEF Spec

(* The list, the bitmap, the radix tree and the bases of the registered    *)
(* chips agree, and no two chips share a PWM number (pwmchip_add,          *)
(* pwmchip_remove).                                                        *)
THEOREM RegistrySafe == Spec => []RegistryConsistent
<1>1. Init => TypeOK /\ RegistryConsistent BY TypeInit, RegistryInit
<1>2. TypeOK /\ RegistryConsistent /\ [Next]_vars => (TypeOK /\ RegistryConsistent)'
  BY TypeNext, RegistryNext
<1> QED BY <1>1, <1>2, PTL DEF Spec

-----------------------------------------------------------------------------
(* Ownership, reference counts and unloading.                              *)

(* The flags, the handles and the managed handles agree.                   *)
Ownership ==
  /\ ExclusiveOwnership
  /\ NoDanglingHandle
  /\ \A k \in Consumers : managed[k] \subseteq handles[k]

Counted == IsFiniteSet(requested) /\ RefsMatchRequests

(* A module that is being unloaded has no requested device, which is what  *)
(* keeps its exit path from being refused.                                 *)
Unloading ==
  /\ \A m \in Modules : modstate[m] = "going" => RequestedFrom(m) = {}
  /\ SysfsUnbind \/ stale = {}

CoreInv == TypeOK /\ RegistryConsistent /\ Ownership /\ Counted /\ Unloading

LEMMA CoreInit == Init => CoreInv
<1> SUFFICES ASSUME Init PROVE CoreInv OBVIOUS
<1>1. TypeOK /\ RegistryConsistent BY TypeInit, RegistryInit
<1>2. Ownership
  BY DEF Init, Ownership, ExclusiveOwnership, NoDanglingHandle
<1>3. \A m \in Modules : RequestedFrom(m) = {} BY DEF Init, RequestedFrom
<1>4. Counted BY <1>3, FS_EmptySet DEF Init, Counted, RefsMatchRequests
<1>5. Unloading BY <1>3 DEF Init, Unloading
<1> QED BY <1>1, <1>2, <1>4, <1>5 DEF CoreInv

LEMMA RequestedPresent ==
  ASSUME TypeOK, Ownership, NEW p \in requested
  PROVE  p \in Pwm /\ p[1] \in pwms
BY DEF TypeOK, Ownership, ExclusiveOwnership, NoDanglingHandle

LEMMA CallbackFailureKeepsRefs ==
  ASSUME TypeOK, NEW m \in Modules
  PROVE  RefsAfterFailedCallback(m) = refs
<1> DEFINE up == [refs EXCEPT ![m] = @ + 1]
           down == [up EXCEPT ![m] = @ - 1]
<1>1. refs \in [Modules -> Int] BY DEF TypeOK
<1>2. up \in [Modules -> Int] /\ \A n \in Modules : up[n] = IF n = m THEN refs[n] + 1 ELSE refs[n]
  BY <1>1
<1>3. RefsAfterFailedCallback(m) = down
  BY DEF RefsAfterFailedCallback, try_module_get, module_put
<1> HIDE DEF up
<1>4. down \in [Modules -> Int] /\ \A n \in Modules : down[n] = IF n = m THEN up[n] - 1 ELSE up[n]
  BY <1>2
<1> HIDE DEF down
<1>5. \A n \in Modules : down[n] = refs[n] BY <1>1, <1>2, <1>4
<1> QED BY <1>1, <1>3, <1>4, <1>5

(* A granted request: one flag, one handle, one reference more.            *)
LEMMA RequestKeeps ==
  ASSUME CoreInv, NEW k \in Consumers, NEW p \in Pwm, NEW devm \in BOOLEAN,
         p[1] \in pwms, pwm_device_request(k, p, devm),
         UNCHANGED <<pwms, modstate, stale>>
  PROVE  Ownership' /\ Counted' /\ Unloading'
<1> DEFINE o == Owner[p[1]]
<1>1. o \in Modules BY PwmFacts
<1>2. CASE UNCHANGED ownerVars
  BY <1>2 DEF ownerVars, CoreInv, Ownership, ExclusiveOwnership, NoDanglingHandle, Counted,
              RefsMatchRequests, RequestedFrom, Unloading
<1>3. CASE refs' = RefsAfterFailedCallback(o) /\ UNCHANGED <<requested, handles, managed>>
  <2>1. UNCHANGED ownerVars
    BY <1>1, <1>3, CallbackFailureKeepsRefs DEF CoreInv, ownerVars
  <2> QED BY <1>2, <2>1
<1>4. CASE /\ p \notin requested /\ modstate[o] = "live"
           /\ refs' = [refs EXCEPT ![o] = @ + 1]
           /\ requested' = requested \union {p}
           /\ handles' = [handles EXCEPT ![k] = @ \union {p}]
           /\ managed' = IF devm THEN devres_add(k, p) ELSE managed
  <2>1. Ownership'
    <3>1. \A j \in Consumers : p \notin handles[j]
      BY <1>4 DEF CoreInv, Ownership, ExclusiveOwnership
    <3>2. /\ handles'[k] = handles[k] \union {p}
          /\ \A j \in Consumers : j # k => handles'[j] = handles[j]
      BY <1>4 DEF CoreInv, TypeOK
    <3>3. /\ managed'[k] \subseteq managed[k] \union {p}
          /\ \A j \in Consumers : j # k => managed'[j] = managed[j]
      BY <1>4 DEF CoreInv, TypeOK, devres_add
    <3>4. ExclusiveOwnership'
      BY <1>4, <3>1, <3>2 DEF CoreInv, Ownership, ExclusiveOwnership
    <3>5. NoDanglingHandle'
      BY <3>2 DEF CoreInv, Ownership, NoDanglingHandle
    <3>6. \A j \in Consumers : managed'[j] \subseteq handles'[j]
      BY <3>2, <3>3 DEF CoreInv, Ownership
    <3> QED BY <3>4, <3>5, <3>6 DEF Ownership
  <2>2. /\ RequestedFrom(o)' = RequestedFrom(o) \union {p} /\ p \notin RequestedFrom(o)
        /\ \A m \in Modules : m # o => RequestedFrom(m)' = RequestedFrom(m)
    BY <1>4 DEF RequestedFrom
  <2>3. Counted'
    <3>1. IsFiniteSet(requested') BY <1>4, FS_AddElement DEF CoreInv, Counted
    <3>2. RequestedFrom(o) \subseteq requested BY DEF RequestedFrom
    <3>3. IsFiniteSet(RequestedFrom(o)) BY <3>2, FS_Subset DEF CoreInv, Counted
    <3>4. Cardinality(RequestedFrom(o)') = Cardinality(RequestedFrom(o)) + 1
      BY <2>2, <3>3, FS_AddElement
    <3> QED BY <1>1, <1>4, <2>2, <3>1, <3>4
            DEF CoreInv, Counted, RefsMatchRequests, TypeOK
  <2>4. Unloading' BY <1>4, <2>2 DEF CoreInv, Unloading
  <2> QED BY <2>1, <2>3, <2>4
<1> QED
  BY <1>2, <1>3, <1>4 DEF pwm_device_request, AlreadyRequested, module_is_live, try_module_get

(* A put of a handle: one flag, one handle, one reference less.            *)
LEMMA PutKeeps ==
  ASSUME CoreInv, NEW k \in Consumers, NEW p \in handles[k], Put(k, p),
         \/ p \notin managed[k] /\ UNCHANGED managed
         \/ managed' = devres_remove(k, p),
         UNCHANGED <<pwms, modstate, stale>>
  PROVE  Ownership' /\ Counted' /\ Unloading'
<1> DEFINE o == Owner[p[1]]
<1>1. p \in Pwm /\ p \in requested
  BY DEF CoreInv, TypeOK, Ownership, ExclusiveOwnership
<1>2. o \in Modules BY <1>1, PwmFacts
<1>3. /\ refs' = [refs EXCEPT ![o] = @ - 1]
      /\ requested' = requested \ {p}
      /\ handles' = [handles EXCEPT ![k] = @ \ {p}]
  BY <1>1 DEF Put, RefsAfterPut, module_put
<1>4. Ownership'
  <2>1. \A j \in Consumers : j # k => p \notin handles[j]
    BY DEF CoreInv, Ownership, ExclusiveOwnership
  <2>2. /\ handles'[k] = handles[k] \ {p}
        /\ \A j \in Consumers : j # k => handles'[j] = handles[j]
    BY <1>3 DEF CoreInv, TypeOK
  <2>3. /\ managed'[k] = managed[k] \ {p}
        /\ \A j \in Consumers : j # k => managed'[j] = managed[j]
    BY DEF CoreInv, TypeOK, devres_remove
  <2>4. ExclusiveOwnership'
    BY <1>3, <2>1, <2>2 DEF CoreInv, Ownership, ExclusiveOwnership
  <2>5. NoDanglingHandle' BY <2>2 DEF CoreInv, Ownership, NoDanglingHandle
  <2>6. \A j \in Consumers : managed'[j] \subseteq handles'[j]
    BY <2>2, <2>3 DEF CoreInv, Ownership
  <2> QED BY <2>4, <2>5, <2>6 DEF Ownership
<1>5. /\ RequestedFrom(o)' = RequestedFrom(o) \ {p} /\ p \in RequestedFrom(o)
      /\ \A m \in Modules : m # o => RequestedFrom(m)' = RequestedFrom(m)
  BY <1>1, <1>3 DEF RequestedFrom
<1>6. Counted'
  <2>1. IsFiniteSet(requested') BY <1>3, FS_RemoveElement DEF CoreInv, Counted
  <2>2. RequestedFrom(o) \subseteq requested BY DEF RequestedFrom
  <2>3. IsFiniteSet(RequestedFrom(o)) BY <2>2, FS_Subset DEF CoreInv, Counted
  <2>4. Cardinality(RequestedFrom(o)') = Cardinality(RequestedFrom(o)) - 1
    BY <1>5, <2>3, FS_RemoveElement
  <2> QED BY <1>2, <1>3, <1>5, <2>1, <2>4
          DEF CoreInv, Counted, RefsMatchRequests, TypeOK
<1>7. Unloading' BY <1>2, <1>5 DEF CoreInv, Unloading
<1> QED BY <1>4, <1>6, <1>7

LEMMA AddKeeps ==
  ASSUME CoreInv, NEW c \in Chips, NEW b \in Bases, pwmchip_add(c, b)
  PROVE  Ownership' /\ Counted' /\ Unloading'
<1>1. c \notin pwms BY DEF CoreInv, pwmchip_add, RegistryConsistent
<1>2. requested' = requested
  <2>1. \A p \in requested : p \notin PwmsOf(c)
    BY <1>1, RequestedPresent DEF CoreInv, PwmsOf
  <2> QED BY <2>1 DEF pwmchip_add
<1>3. /\ UNCHANGED <<stale, refs, handles, managed, modstate>>
      /\ pwms \subseteq pwms'
  BY DEF pwmchip_add, taskVars
<1>4. Ownership'
  BY <1>2, <1>3 DEF CoreInv, Ownership, ExclusiveOwnership, NoDanglingHandle
<1>5. \A m \in Modules : RequestedFrom(m)' = RequestedFrom(m) BY <1>2 DEF RequestedFrom
<1> QED BY <1>2, <1>3, <1>4, <1>5 DEF CoreInv, Counted, RefsMatchRequests, Unloading

LEMMA RemoveKeeps ==
  ASSUME CoreInv, NEW c \in Chips, chip_driver_remove(c),
         SysfsUnbind \/ ~Busy(c)
  PROVE  Ownership' /\ Counted' /\ Unloading'
<1>1. UNCHANGED <<refs, handles, managed, modstate>> BY DEF chip_driver_remove
<1>2. requested' = requested /\ \A p \in requested : p[1] \in pwms'
  <2>1. CASE Busy(c)
    BY <2>1, RequestedPresent DEF CoreInv, chip_driver_remove
  <2>2. CASE ~Busy(c)
    <3>1. ASSUME NEW p \in requested PROVE p[1] # c
      <4>1. p \in Pwm BY RequestedPresent DEF CoreInv
      <4>2. p = <<p[1], p[2]>> /\ p[2] \in Nat /\ p[2] < Npwm[p[1]] /\ Npwm[p[1]] \in 1 .. MaxPwms
        BY <4>1, PwmFacts
      <4>3. MaxPwms \in Nat BY CoreAssumption
      <4> QED BY <2>2, <4>2, <4>3 DEF Busy
    <3>2. requested' = requested \ PwmsOf(c) /\ pwms' = pwms \ {c}
      BY <2>2 DEF chip_driver_remove, free_pwms
    <3> QED BY <3>1, <3>2, RequestedPresent DEF CoreInv, PwmsOf
  <2> QED BY <2>1, <2>2
<1>3. Ownership'
  <2>1. ExclusiveOwnership' BY <1>1, <1>2 DEF CoreInv, Ownership, ExclusiveOwnership
  <2>2. \A k \in Consumers : \A p \in handles[k] : p \in requested
    BY DEF CoreInv, Ownership, ExclusiveOwnership, TypeOK
  <2>3. NoDanglingHandle' BY <1>1, <1>2, <2>2 DEF NoDanglingHandle
  <2> QED BY <1>1, <2>1, <2>3 DEF CoreInv, Ownership
<1>4. \A m \in Modules : RequestedFrom(m)' = RequestedFrom(m) BY <1>2 DEF RequestedFrom
<1>5. SysfsUnbind \/ stale' = stale BY DEF chip_driver_remove
<1> QED BY <1>1, <1>2, <1>3, <1>4, <1>5 DEF CoreInv, Counted, RefsMatchRequests, Unloading

LEMMA DeleteModuleKeeps ==
  ASSUME CoreInv, NEW m \in Modules, delete_module(m)
  PROVE  Ownership' /\ Counted' /\ Unloading'
<1>1. refs[m] = 0 /\ UNCHANGED <<pwms, stale, requested, refs, handles, managed>>
      /\ modstate' = [modstate EXCEPT ![m] = "going"]
  BY DEF delete_module, registryVars, ownerVars
<1>2. RequestedFrom(m) = {}
  <2>1. RequestedFrom(m) \subseteq requested BY DEF RequestedFrom
  <2>2. IsFiniteSet(RequestedFrom(m)) BY <2>1, FS_Subset DEF CoreInv, Counted
  <2>3. Cardinality(RequestedFrom(m)) = 0 BY <1>1 DEF CoreInv, Counted, RefsMatchRequests
  <2> QED BY <2>2, <2>3, FS_EmptySet
<1>3. Ownership'
  BY <1>1 DEF CoreInv, Ownership, ExclusiveOwnership, NoDanglingHandle
<1>4. \A n \in Modules : RequestedFrom(n)' = RequestedFrom(n) BY <1>1 DEF RequestedFrom
<1>5. Unloading' BY <1>1, <1>2, <1>4 DEF CoreInv, Unloading, TypeOK
<1> QED BY <1>1, <1>3, <1>4, <1>5 DEF CoreInv, Counted, RefsMatchRequests

LEMMA OwnershipNext == CoreInv /\ [Next]_vars => Ownership' /\ Counted' /\ Unloading'
<1> SUFFICES ASSUME CoreInv, [Next]_vars PROVE Ownership' /\ Counted' /\ Unloading'
  OBVIOUS
<1>1. CASE UNCHANGED <<pwms, stale, ownerVars, modstate>>
  BY <1>1 DEF ownerVars, CoreInv, Ownership, ExclusiveOwnership, NoDanglingHandle, Counted,
              RefsMatchRequests, RequestedFrom, Unloading
<1>2. ASSUME NEW c \in Chips, NEW b \in Bases, pwmchip_add(c, b)
      PROVE  Ownership' /\ Counted' /\ Unloading'
  BY <1>2, AddKeeps
<1>3. ASSUME NEW c \in Chips, module_exit(c) PROVE Ownership' /\ Counted' /\ Unloading'
  <2>1. RequestedFrom(Owner[c]) = {}
    BY <1>3, CoreAssumption DEF module_exit, CoreInv, Unloading
  <2>2. ASSUME Busy(c) PROVE FALSE
    <3>1. PICK i \in 0 .. Npwm[c] - 1 : <<c, i>> \in requested BY <2>2 DEF Busy
    <3>2. Owner[<<c, i>>[1]] = Owner[c] OBVIOUS
    <3> QED BY <2>1, <3>1, <3>2 DEF RequestedFrom
  <2> QED BY <1>3, <2>2, RemoveKeeps DEF module_exit
<1>4. ASSUME NEW c \in Chips, driver_unbind(c) PROVE Ownership' /\ Counted' /\ Unloading'
  BY <1>4, RemoveKeeps DEF driver_unbind
<1>5. ASSUME NEW m \in Modules, delete_module(m) PROVE Ownership' /\ Counted' /\ Unloading'
  BY <1>5, DeleteModuleKeeps
<1>6. ASSUME NEW m \in Modules, load_module(m) PROVE Ownership' /\ Counted' /\ Unloading'
  <2>1. /\ UNCHANGED <<pwms, stale, requested, refs, handles, managed>>
        /\ modstate' = [modstate EXCEPT ![m] = "live"]
    BY <1>6 DEF load_module, registryVars, ownerVars
  <2>2. Ownership'
    BY <2>1 DEF CoreInv, Ownership, ExclusiveOwnership, NoDanglingHandle
  <2>3. \A n \in Modules : RequestedFrom(n)' = RequestedFrom(n) BY <2>1 DEF RequestedFrom
  <2>4. Unloading' BY <2>1, <2>3 DEF CoreInv, Unloading, TypeOK
  <2> QED BY <2>1, <2>2, <2>3, <2>4 DEF CoreInv, Counted, RefsMatchRequests
<1>7. CASE pwm_add_table BY <1>1, <1>7 DEF pwm_add_table, registryVars
<1>8. ASSUME NEW k \in Consumers, Consumer(k) \/ Continue(k)
      PROVE  Ownership' /\ Counted' /\ Unloading'
  <2>1. UNCHANGED <<pwms, modstate, stale>> BY <1>8, ConsumerFrame DEF registryVars
  <2>2. CASE UNCHANGED ownerVars BY <1>1, <2>1, <2>2
  <2>3. ASSUME NEW p \in Pwm, NEW devm \in BOOLEAN, p[1] \in pwms,
               pwm_device_request(k, p, devm)
        PROVE  Ownership' /\ Counted' /\ Unloading'
    BY <2>1, <2>3, RequestKeeps
  <2>4. ASSUME NEW p \in handles[k] \ managed[k], Put(k, p), UNCHANGED managed
        PROVE  Ownership' /\ Counted' /\ Unloading'
    BY <2>1, <2>4, PutKeeps
  <2>5. ASSUME NEW p \in managed[k], Put(k, p), managed' = devres_remove(k, p)
        PROVE  Ownership' /\ Counted' /\ Unloading'
    <3>1. p \in handles[k] BY DEF CoreInv, Ownership
    <3> QED BY <2>1, <2>5, <3>1, PutKeeps
  <2> QED BY <1>8, <2>2, <2>3, <2>4, <2>5, ConsumerOwnership DEF CoreInv
<1>9. CASE UNCHANGED vars BY <1>1, <1>9 DEF vars, registryVars
<1> QED
  BY <1>2, <1>3, <1>4, <1>5, <1>6, <1>7, <1>8, <1>9 DEF Next, Registry

LEMMA CoreInvariant == Spec => []CoreInv
<1>1. CoreInv /\ [Next]_vars => CoreInv'
  BY TypeNext, RegistryNext, OwnershipNext DEF CoreInv
<1> QED BY CoreInit, <1>1, PTL DEF Spec

(* PWMF_REQUESTED is set exactly while one consumer holds the device, and  *)
(* two never do (pwm_device_request, pwm_put).                             *)
THEOREM OwnershipSafe == Spec => []ExclusiveOwnership
<1>1. CoreInv => ExclusiveOwnership BY DEF CoreInv, Ownership
<1> QED BY CoreInvariant, <1>1, PTL

(* The owner of a chip is referenced once for each requested device        *)
(* (pwm_device_request, pwm_put).                                          *)
THEOREM RefsSafe == Spec => []RefsMatchRequests
<1>1. CoreInv => RefsMatchRequests BY DEF CoreInv, Counted
<1> QED BY CoreInvariant, <1>1, PTL

(* No handle outlives the array it points into (pwmchip_remove).           *)
THEOREM HandlesSafe == Spec => []NoDanglingHandle
<1>1. CoreInv => NoDanglingHandle BY DEF CoreInv, Ownership
<1> QED BY CoreInvariant, <1>1, PTL

(* Without an unbind of a driver in use, pwmchip_remove() is never         *)
(* refused and so no freed chip is left on the list (pwm-sunxi.c:273).     *)
THEOREM NoStaleSafe == ASSUME ~SysfsUnbind PROVE Spec => []NoStaleChip
<1>1. CoreInv => NoStaleChip BY DEF CoreInv, Unloading, NoStaleChip
<1> QED BY CoreInvariant, <1>1, PTL

-----------------------------------------------------------------------------
(* The framework implements PwmPromise.                                    *)

Present == pwm_chips \ stale

LEMMA PromiseInit == Init => Promise!Init
BY DEF Init, Promise!Init

LEMMA FreeOf ==
  ASSUME CoreInv, NEW p, p \notin requested
  PROVE  Promise!Free(p)
BY DEF CoreInv, TypeOK, Ownership, ExclusiveOwnership, Promise!Free

LEMMA PromiseRemove ==
  ASSUME CoreInv, NEW c \in Chips, chip_driver_remove(c), ~Busy(c)
  PROVE  Promise!Unregister(c)
<1>1. UNCHANGED handles BY DEF chip_driver_remove
<1>2. c \in Present /\ Present' = Present \ {c}
  BY DEF chip_driver_remove, list_del_init, Present
<1>3. ASSUME NEW p \in Pwm, p[1] = c PROVE p \notin requested
  <2>1. p = <<p[1], p[2]>> /\ p[2] \in Nat /\ p[2] < Npwm[c] /\ Npwm[c] \in 1 .. MaxPwms
    BY <1>3, PwmFacts
  <2>2. MaxPwms \in Nat BY CoreAssumption
  <2> QED BY <1>3, <2>1, <2>2 DEF Busy
<1>4. \A p \in Pwm : p[1] = c => Promise!Free(p) BY <1>3, FreeOf
<1> QED BY <1>1, <1>2, <1>4 DEF Promise!Unregister, Present

LEMMA PromiseRequest ==
  ASSUME CoreInv, NEW k \in Consumers, NEW p \in Pwm, NEW devm \in BOOLEAN,
         p[1] \in Present, pwm_device_request(k, p, devm), UNCHANGED <<pwm_chips, stale>>
  PROVE  Promise!Acquire(k, p) \/ UNCHANGED <<pwm_chips, stale, handles>>
<1>1. CASE p \notin requested /\ handles' = [handles EXCEPT ![k] = @ \union {p}]
  BY <1>1, FreeOf DEF Promise!Acquire, Present
<1>2. CASE UNCHANGED handles BY <1>2
<1> QED BY <1>1, <1>2 DEF pwm_device_request, AlreadyRequested, ownerVars

LEMMA PromiseStep ==
  ASSUME ~SysfsUnbind
  PROVE  CoreInv /\ [Next]_vars => [Promise!Next]_(Promise!vars)
<1> SUFFICES ASSUME CoreInv, [Next]_vars PROVE [Promise!Next]_(Promise!vars) OBVIOUS
<1>0. stale = {} /\ pwm_chips = pwms BY DEF CoreInv, Unloading, RegistryConsistent
<1>1. CASE UNCHANGED <<pwm_chips, stale, handles>> BY <1>1 DEF Promise!vars
<1>2. ASSUME NEW c \in Chips, NEW b \in Bases, pwmchip_add(c, b)
      PROVE  Promise!Next
  <2>1. c \notin pwm_chips /\ pwm_chips' = pwm_chips \union {c} /\ UNCHANGED <<stale, handles>>
    BY <1>2 DEF pwmchip_add
  <2>2. Promise!Register(c) BY <1>0, <2>1 DEF Promise!Register
  <2> QED BY <2>2 DEF Promise!Next
<1>3. ASSUME NEW c \in Chips, module_exit(c) \/ driver_unbind(c)
      PROVE  Promise!Next
  <2>1. chip_driver_remove(c) /\ c \in pwm_chips
    BY <1>3 DEF module_exit, driver_unbind, chip_driver_remove
  <2>2. ASSUME module_exit(c) PROVE ~Busy(c)
    <3>1. Owner[c] \in Modules /\ RequestedFrom(Owner[c]) = {}
      BY <2>2, CoreAssumption DEF module_exit, CoreInv, Unloading
    <3>2. ASSUME NEW i \in 0 .. Npwm[c] - 1 PROVE <<c, i>> \notin requested
      BY <3>1 DEF RequestedFrom
    <3> QED BY <3>2 DEF Busy
  <2>3. ~Busy(c) BY <1>3, <2>2 DEF driver_unbind
  <2> QED BY <2>1, <2>3, PromiseRemove DEF Promise!Next
<1>4. ASSUME NEW m \in Modules, delete_module(m) \/ load_module(m)
      PROVE  [Promise!Next]_(Promise!vars)
  BY <1>1, <1>4 DEF delete_module, load_module, registryVars, ownerVars
<1>5. ASSUME NEW k \in Consumers, Consumer(k) \/ Continue(k)
      PROVE  [Promise!Next]_(Promise!vars)
  <2>1. UNCHANGED <<pwm_chips, stale>> BY <1>5, ConsumerFrame DEF registryVars
  <2>2. CASE UNCHANGED ownerVars BY <1>1, <2>1, <2>2 DEF ownerVars
  <2>3. ASSUME NEW p \in Pwm, NEW devm \in BOOLEAN, p[1] \in pwms,
               pwm_device_request(k, p, devm)
        PROVE  [Promise!Next]_(Promise!vars)
    BY <1>0, <1>1, <2>1, <2>3, PromiseRequest DEF Promise!Next, Present
  <2>4. ASSUME NEW p \in handles[k], Put(k, p) PROVE Promise!Next
    <3>1. Promise!Release(k, p) BY <2>1, <2>4 DEF Put, Promise!Release
    <3>2. p \in Pwm BY DEF CoreInv, TypeOK
    <3> QED BY <3>1, <3>2 DEF Promise!Next
  <2>5. managed[k] \subseteq handles[k] BY DEF CoreInv, Ownership
  <2> QED BY <1>5, <2>2, <2>3, <2>4, <2>5, ConsumerOwnership DEF CoreInv
<1>6. CASE pwm_add_table BY <1>1, <1>6 DEF pwm_add_table, registryVars, ownerVars
<1>7. CASE UNCHANGED vars BY <1>1, <1>7 DEF vars, registryVars, ownerVars
<1> QED
  BY <1>2, <1>3, <1>4, <1>5, <1>6, <1>7 DEF Next, Registry

(* The registry and its request functions implement the promise as long as *)
(* no driver is unbound while its PWM devices are in use: modules may be   *)
(* loaded and unloaded and tasks preempted and even killed inside a call.  *)
THEOREM PromiseKept == ASSUME ~SysfsUnbind PROVE Spec => ImplementsPromise
<1>1. Spec => Promise!Spec
  BY CoreInvariant, PromiseInit, PromiseStep, PTL DEF Spec, Promise!Spec
<1> QED BY <1>1 DEF ImplementsPromise
=============================================================================
