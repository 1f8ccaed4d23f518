------------------------------- MODULE PwmCore -------------------------------
(***************************************************************************)
(* The generic PWM framework of src/module/pwm/core.c: the registry of PWM *)
(* chips, the request and release of PWM devices, the board lookup table   *)
(* behind pwm_get(), and the managed (devm_) handles.  The parts of the    *)
(* kernel it leans on are modelled from how core.c uses them: the          *)
(* reference count of the module that owns a chip, and the driver core     *)
(* that binds and unbinds drivers.                                         *)
(*                                                                         *)
(* A critical section under pwm_lock is one step.  A task may be switched  *)
(* out between two of them when the kernel is preemptible or SMP           *)
(* (Preempt = TRUE); the kernel of the checked-in pwm.ko (vermagic         *)
(* "3.4.39 mod_unload modversions ARMv7 p2v8") is neither, and there the   *)
(* sections of one pwm_get() follow each other without a switch.           *)
(***************************************************************************)
EXTENDS Integers, FiniteSets, Sequences

CONSTANTS
  Chips,          \* the PWM chips: each is the memory of one probe of a device
  Name,           \* Name[c]: dev_name(chip->dev), the device that was probed
  Modules,        \* the driver modules
  Consumers,      \* the tasks of the drivers that use PWM devices
  Npwm,           \* Npwm[c]: chip->npwm
  Owner,          \* Owner[c]: the module in chip->ops->owner
  HasRequestOp,   \* the chips whose ops have a request callback
  MaxPwms,        \* MAX_PWMS
  Bases,          \* the values drivers give chip->base before pwmchip_add
  BoardTable,     \* the sequence of entries pwm_add_table is called with
  Devices,        \* the names of the devices that call pwm_get
  ConIds,         \* the consumer ids they pass
  Preempt,        \* may a task be switched out between two critical sections?
  SysfsUnbind,    \* is a driver unbound through sysfs while its PWMs are in use?
  NULL            \* NULL, and the ids of a wildcard entry

Pwm == {p \in Chips \X (0 .. MaxPwms - 1) : p[2] < Npwm[p[1]]}

GetArgs == [dev : Devices \union {NULL}, con : ConIds \union {NULL}]

Entries == [dev_id : Devices \union {NULL}, con_id : ConIds \union {NULL},
            provider : {Name[c] : c \in Chips} \union {NULL}, index : Nat]

ASSUME CoreAssumption ==
  /\ MaxPwms \in Nat \ {0}
  /\ Npwm \in [Chips -> 1 .. MaxPwms]
  /\ Owner \in [Chips -> Modules]
  /\ \A c \in Chips : Name[c] # NULL
  /\ HasRequestOp \subseteq Chips
  /\ Bases \subseteq Int
  /\ BoardTable \in Seq(Entries)
  /\ Preempt \in BOOLEAN /\ SysfsUnbind \in BOOLEAN
  /\ NULL \notin Chips \union Consumers \union Pwm

VARIABLES
  pwm_chips,         \* the chips on the list pwm_chips
  pwms,              \* the chips whose array chip->pwms is allocated
  base,              \* base[c]: chip->base, -1 before registration
  pwm_tree,          \* the radix tree: PWM number to PWM device
  allocated_pwms,    \* the bitmap of PWM numbers in use
  requested,         \* the PWM devices with PWMF_REQUESTED set
  stale,             \* the listed chips whose memory the driver core freed
  refs,              \* refs[m]: the reference count of module m
  modstate,          \* modstate[m]: "live", or "going" once rmmod has begun
  pwm_lookup_list,   \* the lookup table
  lookup_owner,      \* the task that holds pwm_lookup_lock, or NULL
  pc,                \* where each consumer task stands
  scan,              \* the locals of pwm_get in each task
  handles,           \* handles[k]: the PWM devices k got and has not put
  managed            \* managed[k]: those of them that devres will put

registryVars == <<pwm_chips, pwms, base, pwm_tree, allocated_pwms, stale>>
ownerVars    == <<requested, refs, handles, managed>>
taskVars     == <<pc, scan, lookup_owner>>
vars == <<registryVars, ownerVars, taskVars, modstate, pwm_lookup_list>>

PcStates == {"unbound", "idle", "scan", "detach", "oops"}

NoScan == [arg |-> [dev |-> NULL, con |-> NULL], devm |-> FALSE, pos |-> 1,
           best |-> 0, chip |-> NULL, index |-> 0]

Scans == [arg : GetArgs, devm : BOOLEAN, pos : Nat \ {0}, best : 0 .. 2,
          chip : Chips \union {NULL}, index : Nat]

TypeOK ==
  /\ pwm_chips \subseteq Chips
  /\ pwms \subseteq Chips
  /\ base \in [Chips -> -1 .. MaxPwms - 1]
  /\ pwm_tree \in [0 .. MaxPwms - 1 -> Pwm \union {NULL}]
  /\ allocated_pwms \subseteq 0 .. MaxPwms - 1
  /\ requested \subseteq Pwm
  /\ stale \subseteq Chips
  /\ refs \in [Modules -> Int]
  /\ modstate \in [Modules -> {"live", "going"}]
  /\ pwm_lookup_list \in Seq(Entries)
  /\ lookup_owner \in Consumers \union {NULL}
  /\ pc \in [Consumers -> PcStates]
  /\ scan \in [Consumers -> Scans]
  /\ handles \in [Consumers -> SUBSET Pwm]
  /\ managed \in [Consumers -> SUBSET Pwm]

Init ==
  /\ pwm_chips = {} /\ pwms = {} /\ stale = {}
  /\ base = [c \in Chips |-> -1]
  /\ pwm_tree = [n \in 0 .. MaxPwms - 1 |-> NULL]
  /\ allocated_pwms = {}
  /\ requested = {}
  /\ refs = [m \in Modules |-> 0]
  /\ modstate = [m \in Modules |-> "live"]
  /\ pwm_lookup_list = <<>>
  /\ lookup_owner = NULL
  /\ pc = [k \in Consumers |-> "unbound"]
  /\ scan = [k \in Consumers |-> NoScan]
  /\ handles = [k \in Consumers |-> {}]
  /\ managed = [k \in Consumers |-> {}]

-----------------------------------------------------------------------------
(* Scheduling.  An oops under a mutex kills the task and never releases it. *)

PwmLockFree == \A k \in Consumers : pc[k] # "oops"

Runnable(t) == Preempt \/ \A k \in Consumers \ {t} : pc[k] # "scan"

CanLock(t) == Runnable(t) /\ PwmLockFree

-----------------------------------------------------------------------------
(* The chip registry.                                                      *)

PwmsOf(c) == {p \in Pwm : p[1] = c}

Numbers(start, count) == start .. start + count - 1

(* Fault: the free-run test looks at one number too few.                   *)
FreeAreas_ShortTest(from, count) ==
  {s \in from .. MaxPwms - count :
      Numbers(s, count - 1) \intersect allocated_pwms = {}}

FreeAreas(from, count) ==
  {s \in from .. MaxPwms - count :
      Numbers(s, count) \intersect allocated_pwms = {}}

(* The lowest free run at or above from: a set, empty when there is none.  *)
bitmap_find_next_zero_area(from, count) ==
  {s \in FreeAreas(from, count) : \A t \in FreeAreas(from, count) : s <= t}

(* The numbers alloc_pwms() may return: one, or none for -EINVAL (base     *)
(* past the last number), -EEXIST (fixed base taken) and -ENOSPC.          *)
alloc_pwms(pwm, count) ==
  {s \in bitmap_find_next_zero_area(IF pwm >= 0 THEN pwm ELSE 0, count) :
      pwm >= 0 => s = pwm}

(* The driver core probes a device only while no driver is bound to it: a  *)
(* freed chip of the device may still be on the list.                      *)
Probed(c) == \E d \in pwm_chips \ stale : Name[d] = Name[c]

(* pwmchip_add() called from a probe with chip->base = b.  It ignores the  *)
(* result of radix_tree_insert(), so any of the numbers may be missing     *)
(* from the tree.  A failure (no numbers, no memory) changes nothing.      *)
pwmchip_add(c, b) ==
  /\ CanLock(NULL)
  /\ c \notin pwm_chips /\ ~Probed(c)
  /\ modstate[Owner[c]] = "live"
  /\ \E start \in alloc_pwms(b, Npwm[c]) :
       /\ \E inserted \in SUBSET Numbers(start, Npwm[c]) :
            pwm_tree' = [n \in DOMAIN pwm_tree |->
                           IF n \in inserted THEN <<c, n - start>> ELSE pwm_tree[n]]
       /\ base' = [base EXCEPT ![c] = start]
       /\ allocated_pwms' = allocated_pwms \union Numbers(start, Npwm[c])
  /\ pwm_chips' = pwm_chips \union {c}
  /\ pwms' = pwms \union {c}
  /\ requested' = requested \ PwmsOf(c)            \* kzalloc: no flag is set
  /\ UNCHANGED <<stale, refs, handles, managed, taskVars, modstate, pwm_lookup_list>>

(* Fault: the loop over the chip's devices starts at the second one.       *)
Busy_SkipsFirst(c) == \E i \in 1 .. Npwm[c] - 1 : <<c, i>> \in requested

Busy(c) == \E i \in 0 .. Npwm[c] - 1 : <<c, i>> \in requested

(* Fault: the loop over the numbers runs one past the end of the array.    *)
TreeWithout_OnePastEnd(c) ==
  [n \in DOMAIN pwm_tree \union {base[c] + Npwm[c]} |->
     IF n \in Numbers(base[c], Npwm[c] + 1) THEN NULL ELSE pwm_tree[n]]

TreeWithout(c) ==
  [n \in DOMAIN pwm_tree |->
     IF n \in Numbers(base[c], Npwm[c]) THEN NULL ELSE pwm_tree[n]]

free_pwms(c) ==
  /\ pwm_tree' = TreeWithout(c)
  /\ allocated_pwms' = allocated_pwms \ Numbers(base[c], Npwm[c])
  /\ pwms' = pwms \ {c}
  /\ requested' = requested \ PwmsOf(c)

(* Fault: the removed chip is left on the list.                            *)
list_del_init_Skipped(c) == pwm_chips

list_del_init(c) == pwm_chips \ {c}

(* The driver core removes the chip's driver: the remove callback returns  *)
(* the result of pwmchip_remove(), the driver core drops it, and devres    *)
(* frees the memory of the chip either way.                                *)
chip_driver_remove(c) ==
  /\ CanLock(NULL)
  /\ c \in pwm_chips \ stale
  /\ \/ /\ Busy(c)                                 \* -EBUSY
        /\ stale' = stale \union {c}
        /\ UNCHANGED <<pwm_chips, pwms, base, pwm_tree, allocated_pwms, requested>>
     \/ /\ ~Busy(c)
        /\ pwm_chips' = list_del_init(c)
        /\ free_pwms(c)
        /\ base' = [base EXCEPT ![c] = -1]
        /\ UNCHANGED stale
  /\ UNCHANGED <<refs, handles, managed, taskVars, modstate, pwm_lookup_list>>

-----------------------------------------------------------------------------
(* The module that owns a chip (kernel/module.c) and its driver.           *)

(* Fault: a module that is being unloaded still hands out references.      *)
module_is_live_Always(m) == TRUE

module_is_live(m) == modstate[m] = "live"

try_module_get(m) == [refs EXCEPT ![m] = @ + 1]

module_put(r, m) == [r EXCEPT ![m] = @ - 1]

(* rmmod: refused while referenced; the exit function then unbinds every   *)
(* chip of the module.                                                     *)
delete_module(m) ==
  /\ Runnable(NULL)
  /\ modstate[m] = "live" /\ refs[m] = 0
  /\ modstate' = [modstate EXCEPT ![m] = "going"]
  /\ UNCHANGED <<registryVars, ownerVars, taskVars, pwm_lookup_list>>

module_exit(c) == modstate[Owner[c]] = "going" /\ chip_driver_remove(c)

(* insmod, once no device is bound to a driver of the last load.           *)
load_module(m) ==
  /\ Runnable(NULL)
  /\ modstate[m] = "going"
  /\ \A c \in pwm_chips \ stale : Owner[c] # m
  /\ modstate' = [modstate EXCEPT ![m] = "live"]
  /\ UNCHANGED <<registryVars, ownerVars, taskVars, pwm_lookup_list>>

(* A write to the driver's unbind file in sysfs, or an unplug.             *)
driver_unbind(c) ==
  /\ SysfsUnbind \/ ~Busy(c)
  /\ modstate[Owner[c]] = "live"
  /\ chip_driver_remove(c)

-----------------------------------------------------------------------------
(* Requesting and releasing a PWM device.                                  *)

(* Fault: the flag is not looked at.                                       *)
AlreadyRequested_Never(p) == FALSE

AlreadyRequested(p) == p \in requested

(* Fault: the module reference is kept when the request callback fails.    *)
RefsAfterFailedCallback_Kept(m) == try_module_get(m)

RefsAfterFailedCallback(m) == module_put(try_module_get(m), m)

devres_add(k, p) == [managed EXCEPT ![k] = @ \union {p}]

(* Task k asks for PWM device p, with devres when devm.                    *)
pwm_device_request(k, p, devm) ==
  LET m == Owner[p[1]] IN
  \/ /\ AlreadyRequested(p) \/ ~module_is_live(m)  \* -EBUSY, -ENODEV
     /\ UNCHANGED ownerVars
  \/ /\ ~AlreadyRequested(p) /\ module_is_live(m)
     /\ p[1] \in HasRequestOp                      \* the callback fails
     /\ refs' = RefsAfterFailedCallback(m)
     /\ UNCHANGED <<requested, handles, managed>>
  \/ /\ ~AlreadyRequested(p) /\ module_is_live(m)
     /\ refs' = try_module_get(m)
     /\ requested' = requested \union {p}
     /\ handles' = [handles EXCEPT ![k] = @ \union {p}]
     /\ managed' = IF devm THEN devres_add(k, p) ELSE managed

(* Fault: a released entry stays on the device's list.                     *)
devres_remove_Forgotten(k, p) == managed

devres_remove(k, p) == [managed EXCEPT ![k] = @ \ {p}]

(* pwm_request(): by PWM number; -EINVAL and -EPROBE_DEFER change nothing. *)
pwm_request(k, n) ==
  /\ pc[k] = "idle"
  /\ CanLock(k)
  /\ n \in DOMAIN pwm_tree /\ pwm_tree[n] # NULL
  /\ pwm_device_request(k, pwm_tree[n], FALSE)
  /\ UNCHANGED <<registryVars, taskVars, modstate, pwm_lookup_list>>

(* pwm_request_from_chip() by a caller that holds a valid chip pointer.    *)
pwm_request_from_chip(k, c, index) ==
  /\ pc[k] = "idle"
  /\ CanLock(k)
  /\ c \in pwms /\ index < Npwm[c]
  /\ pwm_device_request(k, <<c, index>>, FALSE)
  /\ UNCHANGED <<registryVars, taskVars, modstate, pwm_lookup_list>>

(* Fault: the reference to the owner is not given back.                    *)
RefsAfterPut_Kept(p) == refs

RefsAfterPut(p) == module_put(refs, Owner[p[1]])

(* The effect of pwm_put(); a PWM that is not requested is left alone.     *)
Put(k, p) ==
  /\ \/ /\ p \in requested
        /\ requested' = requested \ {p}
        /\ refs' = RefsAfterPut(p)
     \/ /\ p \notin requested
        /\ UNCHANGED <<requested, refs>>
  /\ handles' = [handles EXCEPT ![k] = @ \ {p}]

pwm_put(k, p) ==
  /\ pc[k] = "idle"
  /\ CanLock(k)
  /\ p \in handles[k] \ managed[k]
  /\ Put(k, p)
  /\ UNCHANGED <<managed, registryVars, taskVars, modstate, pwm_lookup_list>>

devm_pwm_put(k, p) ==
  /\ pc[k] = "idle"
  /\ CanLock(k)
  /\ p \in managed[k]
  /\ Put(k, p)
  /\ managed' = devres_remove(k, p)
  /\ UNCHANGED <<registryVars, taskVars, modstate, pwm_lookup_list>>

-----------------------------------------------------------------------------
(* The consumer's driver: bound, then detached by the driver core, which   *)
(* lets devres put what is managed.  The driver puts the rest itself.      *)

driver_bind(k) ==
  /\ Runnable(k)
  /\ pc[k] = "unbound"
  /\ pc' = [pc EXCEPT ![k] = "idle"]
  /\ UNCHANGED <<registryVars, ownerVars, scan, lookup_owner, modstate, pwm_lookup_list>>

driver_detach(k) ==
  /\ Runnable(k)
  /\ pc[k] = "idle" /\ handles[k] = managed[k]
  /\ pc' = [pc EXCEPT ![k] = "detach"]
  /\ UNCHANGED <<registryVars, ownerVars, scan, lookup_owner, modstate, pwm_lookup_list>>

devm_pwm_release(k) ==
  /\ pc[k] = "detach"
  /\ CanLock(k)
  /\ \E p \in managed[k] :
       /\ Put(k, p)
       /\ managed' = devres_remove(k, p)
  /\ UNCHANGED <<registryVars, taskVars, modstate, pwm_lookup_list>>

detach_done(k) ==
  /\ Runnable(k)
  /\ pc[k] = "detach" /\ managed[k] = {}
  /\ pc' = [pc EXCEPT ![k] = "unbound"]
  /\ UNCHANGED <<registryVars, ownerVars, scan, lookup_owner, modstate, pwm_lookup_list>>

-----------------------------------------------------------------------------
(* pwm_get() and the board lookup table.                                   *)

pwm_add_table ==
  /\ Runnable(NULL) /\ lookup_owner = NULL
  /\ pwm_lookup_list = <<>>                        \* called once, by the board
  /\ pwm_lookup_list' = BoardTable
  /\ UNCHANGED <<registryVars, ownerVars, taskVars, modstate>>

Applies(e, arg) == e.dev_id \in {NULL, arg.dev} /\ e.con_id \in {NULL, arg.con}

matched(e) == (IF e.dev_id = NULL THEN 0 ELSE 2) + (IF e.con_id = NULL THEN 0 ELSE 1)

(* Fault: a later entry wins over an earlier one of the same precision.    *)
Better_OrEqual(e, s) == Applies(e, s.arg) /\ matched(e) >= s.best

Better(e, s) == Applies(e, s.arg) /\ matched(e) > s.best

Named(name) == {c \in pwm_chips : Name[c] = name}

(* The chips pwmchip_find_by_name() may return.  It meets the latest chip  *)
(* of a device first (list_add), so a freed one only when the device has   *)
(* no other; a walk through freed memory may also end without a match.     *)
pwmchip_find_by_name(name) ==
  LET found == IF Named(name) \ stale # {} THEN Named(name) \ stale
                                           ELSE Named(name)
  IN  IF found = {} \/ stale # {} THEN found \union {NULL} ELSE found

(* A device instantiated from a device tree gets NULL at once and nothing  *)
(* changes; the scan below is that of every other device.                  *)
pwm_get(k, arg, devm) ==
  /\ pc[k] = "idle"
  /\ Runnable(k) /\ lookup_owner = NULL
  /\ lookup_owner' = k
  /\ pc' = [pc EXCEPT ![k] = "scan"]
  /\ scan' = [scan EXCEPT ![k] = [NoScan EXCEPT !.arg = arg, !.devm = devm]]
  /\ UNCHANGED <<registryVars, ownerVars, modstate, pwm_lookup_list>>

(* Fault: an entry that does not match ends the loop body without a step.  *)
NextEntry_Stuck(s) == s.pos

NextEntry(s) == s.pos + 1

GetSkip(k) ==
  /\ pc[k] = "scan"
  /\ scan[k].pos <= Len(pwm_lookup_list)
  /\ ~Better(pwm_lookup_list[scan[k].pos], scan[k])
  /\ scan' = [scan EXCEPT ![k].pos = NextEntry(scan[k])]
  /\ UNCHANGED <<registryVars, ownerVars, pc, lookup_owner, modstate, pwm_lookup_list>>

GetMatch(k) ==
  LET s == scan[k]
      e == pwm_lookup_list[s.pos] IN
  /\ pc[k] = "scan"
  /\ CanLock(k)
  /\ s.pos <= Len(pwm_lookup_list)
  /\ Better(e, s)
  /\ \E chip \in pwmchip_find_by_name(e.provider) :
       scan' = [scan EXCEPT ![k] =
         [s EXCEPT !.chip = chip,
                   !.index = e.index,
                   !.best = IF matched(e) # 3 THEN matched(e) ELSE s.best,
                   !.pos = IF matched(e) # 3 THEN s.pos + 1
                                           ELSE Len(pwm_lookup_list) + 1]]
  /\ UNCHANGED <<registryVars, ownerVars, pc, lookup_owner, modstate, pwm_lookup_list>>

GetReturn(k) ==
  /\ pc' = [pc EXCEPT ![k] = "idle"]
  /\ scan' = [scan EXCEPT ![k] = NoScan]
  /\ lookup_owner' = NULL

(* The chip found under pwm_lock is used after pwm_lock was given up.      *)
GetFinish(k) ==
  LET s == scan[k] IN
  /\ pc[k] = "scan"
  /\ s.pos > Len(pwm_lookup_list)
  /\ \/ /\ s.chip = NULL                           \* -EPROBE_DEFER
        /\ GetReturn(k) /\ UNCHANGED ownerVars
     \/ /\ s.chip # NULL                           \* -EINVAL
        /\ s.index >= Npwm[s.chip] \/ s.chip \in stale
        /\ GetReturn(k) /\ UNCHANGED ownerVars
     \/ /\ s.chip \in pwms /\ s.index < Npwm[s.chip]
        /\ CanLock(k)
        /\ pwm_device_request(k, <<s.chip, s.index>>, s.devm)
        /\ GetReturn(k)
     \/ /\ s.chip \in Chips \ pwms /\ s.index < Npwm[s.chip]
        /\ CanLock(k)
        /\ pc' = [pc EXCEPT ![k] = "oops"]         \* chip->pwms is NULL or freed
        /\ UNCHANGED <<ownerVars, scan, lookup_owner>>
  /\ UNCHANGED <<registryVars, modstate, pwm_lookup_list>>

(* Reading the freed memory of a stale chip finds what was there, as in    *)
(* the actions above, or something that makes the call fail, or faults     *)
(* with pwm_lock held.  That garbage passes every test of the code and     *)
(* leads to a grant of something that is no PWM device is left out.        *)
UseAfterFree(k) ==
  /\ stale # {}
  /\ pc[k] \in {"idle", "scan", "detach"}
  /\ CanLock(k)
  /\ pc' = [pc EXCEPT ![k] = "oops"]
  /\ UNCHANGED <<registryVars, ownerVars, scan, lookup_owner, modstate, pwm_lookup_list>>

-----------------------------------------------------------------------------

Registry ==
  \/ \E c \in Chips, b \in Bases : pwmchip_add(c, b)
  \/ \E c \in Chips : module_exit(c) \/ driver_unbind(c)
  \/ \E m \in Modules : delete_module(m) \/ load_module(m)
  \/ pwm_add_table

Consumer(k) ==
  \/ driver_bind(k) \/ driver_detach(k)
  \/ \E n \in 0 .. MaxPwms - 1 : pwm_request(k, n)
  \/ \E c \in Chips, i \in 0 .. MaxPwms - 1 : pwm_request_from_chip(k, c, i)
  \/ \E arg \in GetArgs, devm \in BOOLEAN : pwm_get(k, arg, devm)
  \/ \E p \in Pwm : pwm_put(k, p) \/ devm_pwm_put(k, p)
  \/ UseAfterFree(k)

(* The steps of a call that is under way.                                  *)
Continue(k) ==
  GetSkip(k) \/ GetMatch(k) \/ GetFinish(k) \/ devm_pwm_release(k) \/ detach_done(k)

Next == Registry \/ \E k \in Consumers : Consumer(k) \/ Continue(k)

Spec == Init /\ [][Next]_vars

(* A task inside a call is scheduled until the call returns; nobody is     *)
(* obliged to make a call.                                                 *)
FairSpec == Spec /\ \A k \in Consumers : WF_vars(Continue(k))

-----------------------------------------------------------------------------
(* Safety                                                                  *)

(* The list, the bitmap, the radix tree and the bases tell the same story: *)
(* registered chips own disjoint runs of numbers, exactly those are marked *)
(* allocated, and a number in the tree leads to the device it numbers      *)
(* (pwmchip_add, pwmchip_remove, alloc_pwms, free_pwms).                   *)
NumbersOf(c) == Numbers(base[c], Npwm[c])

RegistryConsistent ==
  /\ pwm_chips = pwms
  /\ \A c \in pwms : NumbersOf(c) \subseteq allocated_pwms
  /\ \A n \in allocated_pwms : \E c \in pwms : n \in NumbersOf(c)
  /\ \A c, d \in pwms : c # d => NumbersOf(c) \intersect NumbersOf(d) = {}
  /\ \A n \in 0 .. MaxPwms - 1 : pwm_tree[n] # NULL =>
       /\ pwm_tree[n][1] \in pwms
       /\ n = base[pwm_tree[n][1]] + pwm_tree[n][2]

(* The flag PWMF_REQUESTED is the ownership of the device: it is set       *)
(* exactly while some consumer holds a handle, and never do two hold one   *)
(* (pwm_device_request, pwm_put).                                          *)
ExclusiveOwnership ==
  /\ \A p \in Pwm : p \in requested <=> \E k \in Consumers : p \in handles[k]
  /\ \A j, k \in Consumers : j # k => handles[j] \intersect handles[k] = {}

(* The owner of a chip has one reference for each device of its chips that *)
(* is requested, no more (it could never be unloaded) and no less (it      *)
(* could be unloaded under a user): try_module_get and module_put pair up  *)
(* on every path, the failed request callback included.                    *)
RequestedFrom(m) == {p \in requested : Owner[p[1]] = m}

RefsMatchRequests == \A m \in Modules : refs[m] = Cardinality(RequestedFrom(m))

(* No consumer keeps a handle into an array that free_pwms freed.          *)
NoDanglingHandle == \A k \in Consumers : \A p \in handles[k] : p[1] \in pwms

(* Unbinding a driver never meets a requested device, so the -EBUSY that   *)
(* the driver core ignores is never returned (core.c:302-303,              *)
(* pwm-sunxi.c:273).  What guards the rmmod path is the reference count.   *)
NoStaleChip == stale = {}

(* A module whose consumers are all detached can be unloaded: managed      *)
(* handles put by devres and put by hand leave no reference behind.        *)
DetachedReleasesAll ==
  (\A k \in Consumers : pc[k] = "unbound") => \A m \in Modules : refs[m] = 0

(* pwm_get() ends in a request or an error, never in a fault (core.c:520). *)
GetNeverFaults == \A k \in Consumers : pc[k] # "oops"

(* The device that pwm_get() grants is the one the most specific entry of  *)
(* the table names, the first of equals: dev+con, dev only, con only       *)
(* (core.c:551-556).                                                       *)
MostSpecific(i, arg) ==
  LET e == pwm_lookup_list[i] IN
  /\ Applies(e, arg) /\ matched(e) > 0
  /\ \A j \in DOMAIN pwm_lookup_list :
       LET f == pwm_lookup_list[j] IN
       Applies(f, arg) =>
         /\ matched(f) <= matched(e)
         /\ j < i => matched(f) < matched(e)

LookupPicksMostSpecific ==
  [][\A k \in Consumers :
       pc[k] = "scan" /\ handles'[k] # handles[k] =>
         \E i \in DOMAIN pwm_lookup_list :
           /\ MostSpecific(i, scan[k].arg)
           /\ \E c \in Chips :
                /\ Name[c] = pwm_lookup_list[i].provider
                /\ handles'[k] \ handles[k] = {<<c, pwm_lookup_list[i].index>>}]_vars

(* The framework implements its promise: the chips that are present are    *)
(* those on the list whose memory has not been freed.  A driver unbound    *)
(* while its PWM devices are in use breaks it (SysfsUnbind), as            *)
(* NoStaleChip shows.                                                      *)
Promise == INSTANCE PwmPromise WITH present <- pwm_chips \ stale, held <- handles

ImplementsPromise == Promise!Spec

-----------------------------------------------------------------------------
(* Liveness                                                                *)

(* A pwm_get() returns, and a detach puts everything and ends, unless a    *)
(* task died with a lock held (devres_release_all, pwm_put, pwm_get).      *)
CallsReturn == \A k \in Consumers : pc[k] = "scan" ~> (pc[k] = "idle" \/ ~PwmLockFree)

DetachCompletes ==
  \A k \in Consumers : pc[k] = "detach" ~> (pc[k] = "unbound" \/ ~PwmLockFree)
=============================================================================
