----------------------------- MODULE AvdModule ------------------------------
(***************************************************************************)
(* The scripts that put the patched video decoder module into the kernel:  *)
(* src/avd-driver/build-and-install.sh (with --undo), run any number of    *)
(* times side by side, reload.sh and restore.sh, beside kernel updates,    *)
(* reboots, a decoder client and an operator who builds in the same tree.  *)
(* No script locks out another or itself, and each may end after any of    *)
(* its commands.                                                           *)
(***************************************************************************)
EXTENDS Naturals

CONSTANTS Builders,     \* processes that run build-and-install.sh, or --undo
          Swaps,        \* the scripts of reload.sh and restore.sh that are used
          MaxKernel,    \* bound: kernels 1..MaxKernel get installed
          Branches,     \* of the tree apple-avd
          Kept          \* copies of modules kept beside it (apple-avd-*.ko)

Script == Builders \cup Swaps
Kernels == 1..MaxKernel
Build == [branch : Branches, kernel : Kernels]      \* an apple-avd.ko and its vermagic

ASSUME AvdAssumption ==
  /\ MaxKernel \in Nat \ {0} /\ "series" \in Branches /\ Kept \subseteq Build
  /\ Swaps \subseteq {"reload", "restore"} /\ Builders \cap Swaps = {}

None == [branch |-> "none", kernel |-> 0]
InTree == [branch |-> "in-tree", kernel |-> 0]      \* the kernel package's own
Absent == [build |-> None, whole |-> TRUE]

Steps == {"idle", "checkout", "make", "vermagic", "install", "copy", "depmod", "index",
          "rm", "undepmod", "unindex", "lsmod", "rmmod", "insert", "wait"}

VARIABLES running, newest,      \* the kernel that runs; the last one installed
          override, index,      \* /lib/modules/*/updates/apple-avd.ko; modules.dep names it
          branch, ko,           \* apple-avd: what is checked out, and apple-avd.ko there
          loaded, used,         \* the module in the kernel; a client has its device open
          pc, file,             \* the next command of a script; reload.sh's argument
          placed, found,        \* builders whose file is the one in place, whose depmod saw one
          unspoiled,            \* history: those alone since they began, with a build of their own
          begun,                \* history: those that began since the last kernel update
          said,                 \* history: what the last builder to finish, if it was
                                \* unspoiled, has said of a kernel
          torn,                 \* history: the file went, and no depmod saw it gone
          rebuilt,              \* history: installed, with exit 0, since the last kernel update
          excused               \* history: no module, as the last script or the boot has shown

machine == <<running, newest>>
disk == <<override, index>>
tree == <<branch, ko>>
kernel == <<loaded, used, excused>>
runs == <<placed, found, unspoiled, begun>>
notes == <<said, torn, rebuilt>>
avdVars == <<machine, disk, tree, kernel, pc, file, runs, notes>>

AvdTypeOK ==
  /\ newest \in Kernels /\ running \in 1..newest
  /\ override \in [Kernels -> [build : Build, whole : BOOLEAN] \cup {Absent}]
  /\ index \in [Kernels -> BOOLEAN]
  /\ branch \in Branches /\ ko \in Build \cup {None}
  /\ loaded \in Build \cup {InTree, None} /\ used \in BOOLEAN
  /\ pc \in [Script -> Steps]
  /\ file \in Kept \cup {None}
  /\ placed \subseteq Builders /\ found \subseteq Builders
  /\ unspoiled \subseteq Builders /\ begun \subseteq Builders
  /\ excused \in BOOLEAN /\ rebuilt \in BOOLEAN
  /\ said \in [Kernels -> {"in-tree", "series", "nothing"}]
  /\ torn \in [Kernels -> BOOLEAN]

(* What modprobe loads on kernel k: the override goes before the module of *)
(* the package, a file that is missing or cut short does not load.         *)
Picks(k) ==
  IF ~index[k] THEN InTree
  ELSE IF override[k].whole THEN override[k].build ELSE None

AvdInit ==
  /\ running = 1 /\ newest = 1
  /\ override = [k \in Kernels |-> Absent] /\ index = [k \in Kernels |-> FALSE]
  /\ branch \in Branches
  /\ ko \in Build \cup {None} /\ ko.kernel <= 1
  /\ loaded = InTree /\ used = FALSE
  /\ pc = [s \in Script |-> "idle"] /\ file = None
  /\ placed = {} /\ found = {} /\ unspoiled = {} /\ begun = {}
  /\ rebuilt = FALSE /\ excused = FALSE
  /\ said = [k \in Kernels |-> "in-tree"] /\ torn = [k \in Kernels |-> FALSE]

Goto(s, from, to) == pc[s] = from /\ pc' = [pc EXCEPT ![s] = to]

Alone(b) == \A c \in Builders \ {b} : pc[c] = "idle"

(* A run of build-and-install.sh begins beside others or alone, and ends.  *)
Begins(b, to) ==
  /\ Goto(b, "idle", to)
  /\ unspoiled' = IF Alone(b) THEN {b} ELSE {}
  /\ UNCHANGED <<placed, found>>

Ends(b, from) ==
  /\ Goto(b, from, "idle")
  /\ placed' = placed \ {b} /\ found' = found \ {b}
  /\ unspoiled' = unspoiled \ {b} /\ begun' = begun \ {b}

-----------------------------------------------------------------------------
(* build-and-install.sh.  The kernel is the one that runs: KVER.           *)

StartInstall(b) ==
  /\ Begins(b, "checkout")
  /\ begun' = begun \cup {b}
  /\ UNCHANGED <<machine, disk, tree, kernel, file, notes>>

(* git checkout and make clean, both good. *)
Checkout(b) ==
  /\ Goto(b, "checkout", "make")
  /\ branch' = "series" /\ ko' = None
  /\ UNCHANGED <<machine, disk, kernel, file, runs, notes>>

(* Or one of them fails; the status of the pipeline is that of tail, and   *)
(* the script goes on with the module it finds.                            *)
CheckoutFails(b) ==
  /\ Goto(b, "checkout", "vermagic")
  /\ \/ UNCHANGED tree
     \/ branch' = "series" /\ ko' \in {ko, None}
  /\ unspoiled' = unspoiled \ {b}
  /\ UNCHANGED <<machine, disk, kernel, file, placed, found, begun, notes>>

Make(b) ==
  /\ Goto(b, "make", "vermagic")
  /\ ko' = [branch |-> branch, kernel |-> running]
  /\ UNCHANGED <<machine, disk, branch, kernel, file, runs, notes>>

MakeFails(b) ==
  /\ Goto(b, "make", "vermagic")
  /\ unspoiled' = unspoiled \ {b}
  /\ UNCHANGED <<machine, disk, tree, kernel, file, placed, found, begun, notes>>

(* Mutant: any module that is there will do. *)
AcceptAny(b) ==
  /\ ko # None
  /\ Goto(b, "vermagic", "install")
  /\ UNCHANGED <<machine, disk, tree, kernel, file, runs, notes>>

CheckVermagic(b) ==
  /\ ko.kernel = running
  /\ Goto(b, "vermagic", "install")
  /\ UNCHANGED <<machine, disk, tree, kernel, file, runs, notes>>

(* Another vermagic, or no file for modinfo (set -e).                      *)
VermagicMismatch(b) ==
  /\ ko.kernel # running
  /\ Ends(b, "vermagic")
  /\ UNCHANGED <<machine, disk, tree, kernel, file, notes>>

(* Mutant: a source that is missing empties the target. *)
InstallAnyway(b) ==
  /\ Goto(b, "install", "copy")
  /\ override' = [override EXCEPT ![running] = [build |-> ko, whole |-> FALSE]]
  /\ placed' = {b}
  /\ said' = [said EXCEPT ![running] = "nothing"]
  /\ UNCHANGED <<machine, index, tree, kernel, file, found, unspoiled, begun, torn, rebuilt>>

(* install opens its source, replaces the target by a file of its own and  *)
(* copies.                                                                 *)
Install(b) ==
  /\ ko # None
  /\ Goto(b, "install", "copy")
  /\ override' = [override EXCEPT ![running] = [build |-> ko, whole |-> FALSE]]
  /\ placed' = {b}
  /\ said' = [said EXCEPT ![running] = "nothing"]
  /\ UNCHANGED <<machine, index, tree, kernel, file, found, unspoiled, begun, torn, rebuilt>>

InstallFails(b) ==
  /\ ko = None
  /\ Ends(b, "install")
  /\ UNCHANGED <<machine, disk, tree, kernel, file, notes>>

(* A file that another run has replaced or removed since is written out    *)
(* unseen.                                                                 *)
Copy(b) ==
  /\ Goto(b, "copy", "depmod")
  /\ override' = [override EXCEPT ![running].whole = @ \/ b \in placed]
  /\ UNCHANGED <<machine, index, tree, kernel, file, runs, notes>>

(* depmod looks through the directories...                                 *)
Depmod(b) ==
  /\ Goto(b, "depmod", "index") \/ Goto(b, "undepmod", "unindex")
  /\ found' = IF override[running] = Absent THEN found \ {b} ELSE found \cup {b}
  /\ UNCHANGED <<machine, disk, tree, kernel, file, placed, unspoiled, begun, notes>>

(* ... and replaces modules.dep.                                           *)
Index(b) ==
  /\ index' = [index EXCEPT ![running] = b \in found]
  /\ torn' = [torn EXCEPT ![running] = b \in found /\ override[running] = Absent]

Says(b, what) ==
  said' = [said EXCEPT ![running] = IF b \in unspoiled THEN what ELSE "nothing"]

(* Mutant: the index is left to the next kernel update. *)
IndexLater(b) ==
  /\ Ends(b, "index") /\ Says(b, "series")
  /\ rebuilt' = (rebuilt \/ b \in begun)
  /\ UNCHANGED <<machine, disk, tree, kernel, file, torn>>

InstallIndex(b) ==
  /\ Ends(b, "index") /\ Index(b) /\ Says(b, "series")
  /\ rebuilt' = (rebuilt \/ b \in begun)
  /\ UNCHANGED <<machine, override, tree, kernel, file>>

-----------------------------------------------------------------------------
(* build-and-install.sh --undo *)

UndoNothing(b) ==
  /\ pc[b] = "idle" /\ override[running] = Absent
  /\ said' = [said EXCEPT ![running] = IF Alone(b) THEN "in-tree" ELSE "nothing"]
  /\ unspoiled' = {} /\ rebuilt' = FALSE
  /\ UNCHANGED <<machine, disk, tree, kernel, pc, file, placed, found, begun, torn>>

Undo(b) ==
  /\ override[running] # Absent
  /\ Begins(b, "rm")
  /\ UNCHANGED <<machine, disk, tree, kernel, file, begun, notes>>

Rm(b) ==
  /\ override[running] # Absent
  /\ Goto(b, "rm", "undepmod")
  /\ override' = [override EXCEPT ![running] = Absent]
  /\ placed' = {}
  /\ said' = [said EXCEPT ![running] = "nothing"] /\ rebuilt' = FALSE
  /\ UNCHANGED <<machine, index, tree, kernel, file, found, unspoiled, begun, torn>>

(* Another run has removed the file since the test. *)
RmFails(b) ==
  /\ override[running] = Absent
  /\ Ends(b, "rm")
  /\ UNCHANGED <<machine, disk, tree, kernel, file, notes>>

(* Mutant: rm is enough. *)
UndoKeepsIndex(b) ==
  /\ Ends(b, "unindex") /\ Says(b, "in-tree")
  /\ UNCHANGED <<machine, disk, tree, kernel, file, torn, rebuilt>>

UndoIndex(b) ==
  /\ Ends(b, "unindex") /\ Index(b) /\ Says(b, "in-tree")
  /\ UNCHANGED <<machine, override, tree, kernel, file, rebuilt>>

-----------------------------------------------------------------------------
(* reload.sh and restore.sh *)

KO(f) == IF f = None THEN ko ELSE f

(* Not while fuser shows a client, and with a module for this kernel.      *)
Reload(f) ==
  /\ ~used
  /\ Goto("reload", "idle", "lsmod")
  /\ file' = f /\ KO(f).kernel = running
  /\ UNCHANGED <<machine, disk, tree, kernel, runs, notes>>

Restore ==
  /\ ~used
  /\ Goto("restore", "idle", "lsmod")
  /\ UNCHANGED <<machine, disk, tree, kernel, file, runs, notes>>

Lsmod(s) ==
  /\ Goto(s, "lsmod", IF loaded = None THEN "insert" ELSE "rmmod")
  /\ UNCHANGED <<machine, disk, tree, kernel, file, runs, notes>>

Rmmod(s) ==
  /\ loaded # None /\ ~used
  /\ Goto(s, "rmmod", "insert")
  /\ loaded' = None
  /\ UNCHANGED <<machine, disk, tree, used, excused, file, runs, notes>>

(* The kernel keeps a module that a client has opened since, or has none   *)
(* any more: the script ends with status 5.                                *)
RmmodFails(s) ==
  /\ loaded = None \/ used
  /\ Goto(s, "rmmod", "idle")
  /\ excused' = (loaded = None)
  /\ UNCHANGED <<machine, disk, tree, loaded, used, file, runs, notes>>

Insmod ==
  /\ loaded = None /\ KO(file).kernel = running
  /\ Goto("reload", "insert", "wait")
  /\ loaded' = KO(file) /\ excused' = FALSE
  /\ UNCHANGED <<machine, disk, tree, used, file, runs, notes>>

(* Mutant: insmod fails and nobody looks at its status. *)
InsertUnchecked(s) ==
  /\ Goto(s, "insert", "idle")
  /\ UNCHANGED <<machine, disk, tree, kernel, file, runs, notes>>

(* No such file, another module is loaded, or the module does not start:   *)
(* status 6.                                                               *)
InsertFails(s) ==
  /\ Goto(s, "insert", "idle")
  /\ excused' = (loaded = None)
  /\ UNCHANGED <<machine, disk, tree, loaded, used, file, runs, notes>>

Modprobe ==
  /\ loaded = None
  /\ pc["restore"] = "insert"
  /\ loaded' = Picks(running) /\ excused' = (loaded' = None)
  /\ pc' = [pc EXCEPT !["restore"] = IF loaded' = None THEN "idle" ELSE "wait"]
  /\ UNCHANGED <<machine, disk, tree, used, file, runs, notes>>

(* modprobe is content with a module that another script has loaded.       *)
ModprobeFindsOne ==
  /\ loaded # None
  /\ Goto("restore", "insert", "wait")
  /\ UNCHANGED <<machine, disk, tree, kernel, file, runs, notes>>

(* /dev/video0 is there, or the script ends with status 7.                 *)
Wait(s) ==
  /\ Goto(s, "wait", "idle")
  /\ excused' = (loaded = None)
  /\ UNCHANGED <<machine, disk, tree, loaded, used, file, runs, notes>>

-----------------------------------------------------------------------------
(* Around the scripts. *)

(* Builders that end between rm and the renaming of modules.dep leave it   *)
(* as it was.                                                              *)
Torn(ended) ==
  torn' = [torn EXCEPT ![running] =
             @ \/ /\ override[running] = Absent
                  /\ \E b \in ended : pc[b] \in {"undepmod", "unindex"}]

(* A kill, or a command that fails: nothing of what follows it happens.    *)
BuilderInterrupted(b) ==
  /\ pc[b] # "idle" /\ Ends(b, pc[b])
  /\ Torn({b})
  /\ UNCHANGED <<machine, disk, tree, kernel, file, said, rebuilt>>

SwapInterrupted(s) ==
  /\ pc[s] # "idle" /\ Goto(s, pc[s], "idle")
  /\ excused' = (loaded = None)
  /\ UNCHANGED <<machine, disk, tree, loaded, used, file, runs, notes>>

(* git checkout, make clean or make, by hand, on any branch; too late for  *)
(* an install that has opened its source.                                  *)
OperatorBuilds ==
  /\ branch' \in Branches
  /\ ko' \in {ko, None, [branch |-> branch', kernel |-> running]}
  /\ unspoiled' = {b \in unspoiled : pc[b] \notin {"checkout", "make", "vermagic", "install"}}
  /\ UNCHANGED <<machine, disk, kernel, pc, file, placed, found, begun, notes>>

Open ==
  /\ loaded # None /\ ~used
  /\ used' = TRUE
  /\ UNCHANGED <<machine, disk, tree, loaded, excused, pc, file, runs, notes>>

Close ==
  /\ used
  /\ used' = FALSE
  /\ UNCHANGED <<machine, disk, tree, loaded, excused, pc, file, runs, notes>>

KernelUpdate ==
  /\ newest < MaxKernel
  /\ newest' = newest + 1
  /\ begun' = {} /\ rebuilt' = FALSE
  /\ UNCHANGED <<running, disk, tree, kernel, pc, file, placed, found, unspoiled, said, torn>>

(* Into the last kernel installed; udev loads the module by its alias.     *)
Boot ==
  /\ running' = newest
  /\ pc' = [s \in Script |-> "idle"]
  /\ placed' = {} /\ found' = {} /\ unspoiled' = {} /\ begun' = {}
  /\ Torn(Builders)
  /\ loaded' = Picks(newest) /\ excused' = (loaded' = None)
  /\ used' = FALSE
  /\ UNCHANGED <<newest, disk, tree, file, said, rebuilt>>

AvdNext ==
  \/ \E b \in Builders :
       \/ StartInstall(b) \/ Checkout(b) \/ CheckoutFails(b) \/ Make(b) \/ MakeFails(b)
       \/ CheckVermagic(b) \/ VermagicMismatch(b) \/ Install(b) \/ InstallFails(b)
       \/ Copy(b) \/ Depmod(b) \/ InstallIndex(b)
       \/ UndoNothing(b) \/ Undo(b) \/ Rm(b) \/ RmFails(b) \/ UndoIndex(b)
       \/ BuilderInterrupted(b)
  \/ \E s \in Swaps :
       \/ Lsmod(s) \/ Rmmod(s) \/ RmmodFails(s) \/ InsertFails(s) \/ Wait(s)
       \/ SwapInterrupted(s)
  \/ "reload" \in Swaps /\ (Insmod \/ \E f \in Kept \cup {None} : Reload(f))
  \/ "restore" \in Swaps /\ (Restore \/ Modprobe \/ ModprobeFindsOne)
  \/ OperatorBuilds \/ Open \/ Close \/ KernelUpdate \/ Boot

AvdSpec == AvdInit /\ [][AvdNext]_avdVars

-----------------------------------------------------------------------------

(* What lies in the directory of a kernel was built for that kernel,       *)
(* whatever an earlier build, a checkout that failed, another run of the   *)
(* script or the operator left in the tree between its commands            *)
(* (build-and-install.sh, the vermagic test).                              *)
OverrideFitsItsKernel == \A k \in Kernels : override[k] # Absent => override[k].build.kernel = k

(* "the deliberate 'make it persist across reboots' step"                  *)
(* (build-and-install.sh:4): after an install that said it was done, whose *)
(* build had not failed, for whose file the operator had not built another *)
(* and beside which no other build-and-install.sh ran, every boot into     *)
(* that kernel and every restore.sh there would load the series, until the *)
(* next install or undo touches the file.                                  *)
SeriesIsPicked ==
  \A k \in Kernels : said[k] = "series" => Picks(k) = [branch |-> "series", kernel |-> k]

(* "back to the in-tree module on next load/boot" (build-and-install.sh:7) *)
(* after an undo that said it was done, with no other build-and-install.sh *)
(* beside it.  Not so when it found no file because an earlier run had     *)
(* removed it without a depmod after that: it says the same, and the index *)
(* still names the file.                                                   *)
UndoneStaysUndone ==
  \A k \in Kernels : said[k] = "in-tree" /\ ~torn[k] => Picks(k) = InTree

(* reload.sh and restore.sh, alone or at the same time, with a client that *)
(* opens the device between their test and their rmmod: when no module is  *)
(* loaded, one of them is about to load one, or the last to end had failed *)
(* or was interrupted, or the boot found none.                             *)
LossIsReported ==
  loaded = None => excused \/ \E s \in Swaps : pc[s] \in {"rmmod", "insert", "wait"}

(* "A kernel update needs the module rebuilt (`build-and-install.sh`)      *)
(* before the reboot, or the machine comes back on the in-tree module"     *)
(* (staging/APPLY.md:86-87): a machine where that was done comes back on   *)
(* the patched one.  It does not: KVER is the kernel that still runs.      *)
RebuiltBeforeReboot == rebuilt => Picks(newest) # InTree

=============================================================================
