-------------------------- MODULE AvdModule_proofs --------------------------
(***************************************************************************)
(* Proofs about module AvdModule, for any number of builders and kernels,  *)
(* any branches and any modules kept aside.                                *)
(***************************************************************************)
EXTENDS AvdModule, TLAPS

SeriesFor(k) == [branch |-> "series", kernel |-> k]

(* A run that is unspoiled is the only one.                                *)
AloneOK(b) == b \in unspoiled => pc[b] # "idle" /\ Alone(b)

(* What build-and-install.sh knows of the module it works with: from the   *)
(* vermagic test on it fits the kernel that runs, and if the run is        *)
(* unspoiled it is the series.                                             *)
BuildOK(b) ==
  /\ pc[b] = "install" => ko = None \/ ko.kernel = running
  /\ b \in unspoiled => /\ pc[b] = "make" => branch = "series"
                        /\ pc[b] \in {"vermagic", "install"} => ko = SeriesFor(running)

(* A file being put in place or removed by an unspoiled run...             *)
PlaceOK(b) ==
  b \in unspoiled =>
    /\ pc[b] \in {"copy", "depmod", "index"} => override[running].build = SeriesFor(running)
    /\ pc[b] = "copy" => b \in placed
    /\ pc[b] \in {"depmod", "index"} => override[running].whole
    /\ pc[b] = "index" => b \in found
    /\ pc[b] \in {"undepmod", "unindex"} => override[running] = Absent

(* ... and nothing is said of a kernel while any run changes its files.    *)
Changing(b) == pc[b] \in {"copy", "depmod", "index", "undepmod", "unindex"}
QuietOK(b) == Changing(b) => said[running] = "nothing"

RunOK(b) == AloneOK(b) /\ BuildOK(b) /\ PlaceOK(b) /\ QuietOK(b)

(* What was said of kernel k, and the index of k.                          *)
SaidOK(k) ==
  /\ said[k] = "series" => index[k] /\ override[k] = [build |-> SeriesFor(k), whole |-> TRUE]
  /\ said[k] = "in-tree" => override[k] = Absent
  /\ index[k] => \/ override[k] # Absent
                 \/ torn[k]
                 \/ k = running /\ \E b \in Builders : pc[b] \in {"undepmod", "unindex"}

AvdInv ==
  /\ AvdTypeOK /\ OverrideFitsItsKernel /\ LossIsReported
  /\ \A b \in Builders : RunOK(b)
  /\ \A k \in Kernels : SaidOK(k)

(* A build is never one of the values that stand for "no build".           *)
LEMMA BuildsAreBuilds ==
  /\ None \notin Build /\ InTree \notin Build
  /\ \A b \in Build, w \in BOOLEAN : [build |-> b, whole |-> w] # Absent
  /\ \A k \in Kernels : SeriesFor(k) \in Build
<1>1. None \notin Build /\ InTree \notin Build
  BY AvdAssumption DEF Build, None, InTree, Kernels
<1>2. ASSUME NEW b \in Build, NEW w \in BOOLEAN PROVE [build |-> b, whole |-> w] # Absent
  <2>1. [build |-> b, whole |-> w].build # Absent.build
    BY <1>1 DEF Absent
  <2> QED
    BY <2>1
<1>3. \A k \in Kernels : SeriesFor(k) \in Build
  BY AvdAssumption DEF SeriesFor, Build
<1> QED
  BY <1>1, <1>2, <1>3

(* A file that is there was put there. *)
LEMMA FileOrAbsent ==
  ASSUME AvdTypeOK, NEW k \in Kernels
  PROVE  \/ override[k] = Absent
         \/ /\ override[k] \in [build : Build, whole : BOOLEAN]
            /\ override[k] # Absent /\ override[k].build \in Build
<1>1. override[k] \in [build : Build, whole : BOOLEAN] \cup {Absent}
  BY DEF AvdTypeOK
<1>2. ASSUME override[k] \in [build : Build, whole : BOOLEAN] PROVE override[k] # Absent
  <2>1. override[k].build # Absent.build
    BY <1>2, BuildsAreBuilds DEF Absent
  <2> QED
    BY <2>1
<1> QED
  BY <1>1, <1>2

LEMMA AvdInitially == AvdInit => AvdInv
<1> SUFFICES ASSUME AvdInit PROVE AvdInv
  OBVIOUS
<1> USE AvdAssumption DEF AvdInit
<1>1. AvdTypeOK
  <2>1. newest \in Kernels /\ running \in 1..newest
    BY DEF Kernels
  <2>2. override \in [Kernels -> [build : Build, whole : BOOLEAN] \cup {Absent}]
    OBVIOUS
  <2>3. pc \in [Script -> Steps]
    BY DEF Steps
  <2>4. index \in [Kernels -> BOOLEAN] /\ torn \in [Kernels -> BOOLEAN]
    OBVIOUS
  <2>5. said \in [Kernels -> {"in-tree", "series", "nothing"}]
    OBVIOUS
  <2> QED
    BY <2>1, <2>2, <2>3, <2>4, <2>5 DEF AvdTypeOK
<1>2. OverrideFitsItsKernel /\ LossIsReported
  BY DEF OverrideFitsItsKernel, LossIsReported, InTree, None
<1>3. ASSUME NEW b \in Builders PROVE RunOK(b)
  <2>1. pc[b] = "idle"
    BY DEF Script
  <2> QED
    BY <2>1 DEF RunOK, AloneOK, BuildOK, PlaceOK, QuietOK, Changing
<1>4. \A k \in Kernels : SaidOK(k)
  BY DEF SaidOK
<1> QED
  BY <1>1, <1>2, <1>3, <1>4 DEF AvdInv

LEMMA KernelsInOrder ==
  ASSUME AvdTypeOK
  PROVE  running \in Kernels /\ newest \in Kernels /\ running # 0
  BY AvdAssumption DEF AvdTypeOK, Kernels

LEMMA Gone ==
  ASSUME AvdTypeOK, NEW s \in Script, NEW to \in Steps,
         pc' = [pc EXCEPT ![s] = to]
  PROVE  /\ pc' \in [Script -> Steps] /\ pc'[s] = to
         /\ \A t \in Script \ {s} : pc'[t] = pc[t]
  BY DEF AvdTypeOK

LEMMA PickedModules ==
  ASSUME AvdTypeOK, NEW k \in Kernels
  PROVE  Picks(k) \in Build \cup {InTree, None}
<1>1. override[k] \in [build : Build, whole : BOOLEAN] \cup {Absent}
  BY DEF AvdTypeOK
<1>2. override[k].build \in Build \cup {None}
  BY <1>1 DEF Absent
<1> QED
  BY <1>2 DEF Picks

(* reload.sh, restore.sh and the client touch neither the files nor what   *)
(* was said of them.                                                       *)
Aside ==
  /\ UNCHANGED <<running, newest, override, index, branch, ko, runs, said, torn, rebuilt>>
  /\ \A b \in Builders : pc'[b] = pc[b]

LEMMA FilesStay ==
  ASSUME AvdInv, Aside
  PROVE  /\ OverrideFitsItsKernel'
         /\ (\A b \in Builders : RunOK(b))' /\ (\A k \in Kernels : SaidOK(k))'
<1> USE DEF AvdInv, Aside, runs
<1>1. OverrideFitsItsKernel'
  BY DEF OverrideFitsItsKernel
<1>2. ASSUME NEW b \in Builders PROVE RunOK(b)'
  BY DEF RunOK, AloneOK, Alone, BuildOK, PlaceOK, QuietOK, Changing
<1>3. ASSUME NEW k \in Kernels PROVE SaidOK(k)'
  BY DEF SaidOK
<1> QED
  BY <1>1, <1>2, <1>3

LEMMA SwapStep ==
  ASSUME AvdInv,
         \/ \E s \in Swaps : \/ Lsmod(s) \/ Rmmod(s) \/ RmmodFails(s)
                             \/ InsertFails(s) \/ Wait(s) \/ SwapInterrupted(s)
         \/ "reload" \in Swaps /\ (Insmod \/ \E f \in Kept \cup {None} : Reload(f))
         \/ "restore" \in Swaps /\ (Restore \/ Modprobe \/ ModprobeFindsOne)
         \/ Open \/ Close
  PROVE  AvdInv'
<1> USE DEF machine, disk, tree, kernel, runs, notes, Goto
<1> DEFINE Swapped == AvdTypeOK' /\ LossIsReported' /\ Aside
           Moved(s, to) == /\ pc' \in [Script -> Steps] /\ pc'[s] = to
                           /\ \A t \in Script \ {s} : pc'[t] = pc[t]
<1> AvdTypeOK /\ LossIsReported
  BY DEF AvdInv
<1>s. /\ Swaps \subseteq Script /\ Builders \subseteq Script
      /\ \A s \in Swaps : \A b \in Builders : b # s
  BY AvdAssumption DEF Script
<1> running \in Kernels
  BY KernelsInOrder
<1> {"idle", "lsmod", "rmmod", "insert", "wait"} \subseteq Steps
  BY DEF Steps
<1>m. ASSUME NEW s \in Swaps, NEW to \in Steps, pc' = [pc EXCEPT ![s] = to] PROVE Moved(s, to)
  BY <1>m, <1>s, Gone
<1> SUFFICES Swapped
  BY FilesStay DEF AvdInv
<1>1. ASSUME "reload" \in Swaps, NEW f \in Kept \cup {None}, Reload(f) PROVE Swapped
  BY <1>1, <1>s, Gone DEF Reload, AvdTypeOK, LossIsReported, Aside
<1>2. CASE "restore" \in Swaps /\ Restore
  BY <1>2, <1>s, Gone DEF Restore, AvdTypeOK, LossIsReported, Aside
<1>3. ASSUME NEW s \in Swaps, Lsmod(s) PROVE Swapped
  BY <1>3, <1>s, Gone DEF Lsmod, AvdTypeOK, LossIsReported, Aside
<1>4. ASSUME NEW s \in Swaps, Rmmod(s) PROVE Swapped
  <2>1. Moved(s, "insert")
    BY <1>4, <1>m DEF Rmmod
  <2>2. AvdTypeOK'
    BY <1>4, <2>1 DEF Rmmod, AvdTypeOK
  <2>3. LossIsReported'
    BY <1>4, <1>s, <2>1 DEF Rmmod, LossIsReported
  <2> QED
    BY <1>4, <1>s, <2>1, <2>2, <2>3 DEF Rmmod, Aside
<1>5. ASSUME NEW s \in Swaps, RmmodFails(s) PROVE Swapped
  <2>1. Moved(s, "idle")
    BY <1>5, <1>m DEF RmmodFails
  <2>2. AvdTypeOK'
    BY <1>5, <2>1 DEF RmmodFails, AvdTypeOK
  <2>3. LossIsReported'
    BY <1>5, <1>s, <2>1 DEF RmmodFails, LossIsReported
  <2> QED
    BY <1>5, <1>s, <2>1, <2>2, <2>3 DEF RmmodFails, Aside
<1>6. ASSUME NEW s \in Swaps, InsertFails(s) PROVE Swapped
  <2>1. Moved(s, "idle")
    BY <1>6, <1>m DEF InsertFails
  <2>2. AvdTypeOK'
    BY <1>6, <2>1 DEF InsertFails, AvdTypeOK
  <2>3. LossIsReported'
    BY <1>6, <1>s, <2>1 DEF InsertFails, LossIsReported
  <2> QED
    BY <1>6, <1>s, <2>1, <2>2, <2>3 DEF InsertFails, Aside
<1>7. ASSUME NEW s \in Swaps, Wait(s) PROVE Swapped
  <2>1. Moved(s, "idle")
    BY <1>7, <1>m DEF Wait
  <2>2. AvdTypeOK'
    BY <1>7, <2>1 DEF Wait, AvdTypeOK
  <2>3. LossIsReported'
    BY <1>7, <1>s, <2>1 DEF Wait, LossIsReported
  <2> QED
    BY <1>7, <1>s, <2>1, <2>2, <2>3 DEF Wait, Aside
<1>8. ASSUME NEW s \in Swaps, SwapInterrupted(s) PROVE Swapped
  <2>1. Moved(s, "idle")
    BY <1>8, <1>m DEF SwapInterrupted
  <2>2. AvdTypeOK'
    BY <1>8, <2>1 DEF SwapInterrupted, AvdTypeOK
  <2>3. LossIsReported'
    BY <1>8, <1>s, <2>1 DEF SwapInterrupted, LossIsReported
  <2> QED
    BY <1>8, <1>s, <2>1, <2>2, <2>3 DEF SwapInterrupted, Aside
<1>9. CASE "reload" \in Swaps /\ Insmod
  <2>1. KO(file) \in Build
    BY <1>9, AvdAssumption, KernelsInOrder DEF Insmod, KO, AvdTypeOK, None
  <2>2. KO(file) # None
    BY <2>1, BuildsAreBuilds
  <2> QED
    BY <1>9, <2>1, <2>2, <1>s, Gone DEF Insmod, AvdTypeOK, LossIsReported, Aside
<1>10. CASE "restore" \in Swaps /\ Modprobe
  <2>1. \/ Moved("restore", "idle") /\ loaded' = None
        \/ Moved("restore", "wait") /\ loaded' # None
    BY <1>10, <1>m DEF Modprobe
  <2>2. loaded' \in Build \cup {InTree, None} /\ excused' = (loaded' = None)
    BY <1>10, PickedModules DEF Modprobe
  <2>3. AvdTypeOK'
    BY <1>10, <2>1, <2>2 DEF Modprobe, AvdTypeOK
  <2>4. LossIsReported'
    BY <2>1, <2>2 DEF LossIsReported
  <2> QED
    BY <1>10, <1>s, <2>1, <2>3, <2>4 DEF Modprobe, Aside
<1>11. CASE "restore" \in Swaps /\ ModprobeFindsOne
  BY <1>11, <1>s, Gone DEF ModprobeFindsOne, AvdTypeOK, LossIsReported, Aside
<1>12. CASE Open \/ Close
  BY <1>12 DEF Open, Close, AvdTypeOK, LossIsReported, Aside
<1> QED
  BY <1>1, <1>2, <1>3, <1>4, <1>5, <1>6, <1>7, <1>8, <1>9, <1>10, <1>11, <1>12

(* build-and-install.sh does not touch the kernel.                         *)
LEMMA KernelStays ==
  ASSUME LossIsReported, UNCHANGED kernel, \A s \in Swaps : pc'[s] = pc[s]
  PROVE  LossIsReported'
  BY DEF LossIsReported, kernel

(* What a command of builder b leaves to the other builders.               *)
Beside(b) ==
  /\ running' = running
  /\ \A c \in Builders \ {b} : pc'[c] = pc[c] /\ c \notin unspoiled'
  /\ ko' \in {ko, None} \/ ko'.kernel = running
  /\ said'[running] \in {said[running], "nothing"} \/ Alone(b)

LEMMA OthersStay ==
  ASSUME AvdInv, NEW b \in Builders, Beside(b), NEW c \in Builders \ {b}
  PROVE  RunOK(c)'
<1>1. RunOK(c) /\ c \notin unspoiled' /\ pc'[c] = pc[c] /\ running' = running
  BY DEF AvdInv, Beside
<1>2. BuildOK(c)'
  BY <1>1 DEF Beside, RunOK, BuildOK
<1>3. QuietOK(c)'
  BY <1>1 DEF Beside, RunOK, QuietOK, Changing, Alone
<1> QED
  BY <1>1, <1>2, <1>3 DEF RunOK, AloneOK, PlaceOK

LEMMA OnlyOne ==
  ASSUME AvdInv, NEW b \in Builders, pc[b] # "idle"
  PROVE  unspoiled \subseteq {b} /\ (b \in unspoiled => Alone(b))
  BY DEF AvdInv, AvdTypeOK, RunOK, AloneOK, Alone

(* The commands of builder b that change neither the files nor what was    *)
(* said of them.                                                           *)
LEMMA TreeStep ==
  ASSUME AvdInv, NEW b \in Builders,
         \/ StartInstall(b) \/ Checkout(b) \/ CheckoutFails(b) \/ Make(b) \/ MakeFails(b)
         \/ CheckVermagic(b) \/ VermagicMismatch(b) \/ InstallFails(b)
         \/ Depmod(b) \/ Undo(b) \/ RmFails(b)
  PROVE  AvdInv'
<1> USE DEF machine, disk, tree, kernel, runs, notes, Goto
<1> AvdTypeOK /\ OverrideFitsItsKernel /\ LossIsReported /\ RunOK(b)
  BY DEF AvdInv
<1>s. /\ b \in Script /\ Builders \subseteq Script
      /\ \A s \in Swaps : s \in Script /\ s # b
  BY AvdAssumption DEF Script
<1>k. running \in Kernels /\ running # 0
  BY KernelsInOrder
<1>n. None.kernel # running
  BY <1>k DEF None
<1>o. pc[b] # "idle" => unspoiled \subseteq {b} /\ (b \in unspoiled => Alone(b))
  BY OnlyOne
<1> Steps = {"idle", "checkout", "make", "vermagic", "install", "copy", "depmod", "index",
             "rm", "undepmod", "unindex", "lsmod", "rmmod", "insert", "wait"}
  BY DEF Steps
<1> DEFINE Moved(to) == /\ pc' \in [Script -> Steps] /\ pc'[b] = to
                        /\ \A t \in Script \ {b} : pc'[t] = pc[t]
           Filed == UNCHANGED <<running, newest, override, index, said, torn, kernel>>
           Tidy == /\ AvdTypeOK' /\ Beside(b) /\ RunOK(b)' /\ Filed
                   /\ \A s \in Script \ {b} : pc'[s] = pc[s]
                   /\ pc[b] \in {"undepmod", "unindex"} => pc'[b] \in {"undepmod", "unindex"}
<1>m. ASSUME NEW to \in Steps, pc' = [pc EXCEPT ![b] = to] PROVE Moved(to)
  BY <1>m, <1>s, Gone
<1> SUFFICES Tidy
  <2> SUFFICES ASSUME Tidy PROVE AvdInv'
    OBVIOUS
  <2>1. LossIsReported'
    BY <1>s, KernelStays DEF kernel
  <2>2. OverrideFitsItsKernel'
    BY DEF OverrideFitsItsKernel
  <2>3. \A c \in Builders : RunOK(c)'
    BY OthersStay
  <2>4. ASSUME NEW k \in Kernels PROVE SaidOK(k)'
    <3>1. SaidOK(k)
      BY DEF AvdInv
    <3> QED
      BY <3>1, <1>s DEF SaidOK
  <2> QED
    BY <2>1, <2>2, <2>3, <2>4 DEF AvdInv
<1>1. ASSUME StartInstall(b) PROVE Tidy
  <2>1. Moved("checkout")
    BY <1>1, <1>m DEF StartInstall, Begins
  <2>2. AvdTypeOK' /\ Filed
    BY <1>1, <2>1 DEF StartInstall, Begins, AvdTypeOK
  <2>3. Beside(b)
    BY <1>1, <1>o, <1>s, <2>1 DEF StartInstall, Begins, Beside
  <2>4. RunOK(b)'
    BY <1>1, <1>o, <1>n, <1>s, <2>1 DEF StartInstall, Begins, RunOK, AloneOK, Alone, BuildOK, PlaceOK, QuietOK, Changing, SeriesFor
  <2> QED
    BY <1>1, <2>1, <2>2, <2>3, <2>4 DEF StartInstall, Begins
<1>2. ASSUME Checkout(b) PROVE Tidy
  <2>1. Moved("make")
    BY <1>2, <1>m DEF Checkout
  <2>2. AvdTypeOK' /\ Filed
    BY <1>2, <2>1, AvdAssumption DEF Checkout, AvdTypeOK
  <2>3. Beside(b)
    BY <1>2, <1>o, <1>s, <2>1 DEF Checkout, Beside
  <2>4. RunOK(b)'
    BY <1>2, <1>o, <1>n, <1>s, <2>1 DEF Checkout, RunOK, AloneOK, Alone, BuildOK, PlaceOK, QuietOK, Changing, SeriesFor
  <2> QED
    BY <1>2, <2>1, <2>2, <2>3, <2>4 DEF Checkout
<1>3. ASSUME CheckoutFails(b) PROVE Tidy
  <2>1. Moved("vermagic")
    BY <1>3, <1>m DEF CheckoutFails
  <2>2. AvdTypeOK' /\ Filed
    BY <1>3, <2>1, AvdAssumption DEF CheckoutFails, AvdTypeOK
  <2>3. Beside(b)
    BY <1>3, <1>o, <1>s, <2>1 DEF CheckoutFails, Beside
  <2>4. RunOK(b)'
    BY <1>3, <1>o, <1>n, <1>s, <2>1 DEF CheckoutFails, RunOK, AloneOK, Alone, BuildOK, PlaceOK, QuietOK, Changing, SeriesFor
  <2> QED
    BY <1>3, <2>1, <2>2, <2>3, <2>4 DEF CheckoutFails
<1>4. ASSUME Make(b) PROVE Tidy
  <2>1. Moved("vermagic")
    BY <1>4, <1>m DEF Make
  <2>2. AvdTypeOK' /\ Filed
    <3>1. ko' \in Build
      BY <1>4, <1>k DEF Make, Build, AvdTypeOK
    <3> QED
      BY <1>4, <2>1, <3>1 DEF Make, AvdTypeOK
  <2>3. Beside(b)
    BY <1>4, <1>o, <1>s, <2>1 DEF Make, Beside
  <2>4. RunOK(b)'
    BY <1>4, <1>o, <1>n, <1>s, <2>1 DEF Make, RunOK, AloneOK, Alone, BuildOK, PlaceOK, QuietOK, Changing, SeriesFor
  <2> QED
    BY <1>4, <2>1, <2>2, <2>3, <2>4 DEF Make
<1>5. ASSUME MakeFails(b) PROVE Tidy
  <2>1. Moved("vermagic")
    BY <1>5, <1>m DEF MakeFails
  <2>2. AvdTypeOK' /\ Filed
    BY <1>5, <2>1 DEF MakeFails, AvdTypeOK
  <2>3. Beside(b)
    BY <1>5, <1>o, <1>s, <2>1 DEF MakeFails, Beside
  <2>4. RunOK(b)'
    BY <1>5, <1>o, <1>n, <1>s, <2>1 DEF MakeFails, RunOK, AloneOK, Alone, BuildOK, PlaceOK, QuietOK, Changing, SeriesFor
  <2> QED
    BY <1>5, <2>1, <2>2, <2>3, <2>4 DEF MakeFails
<1>6. ASSUME CheckVermagic(b) PROVE Tidy
  <2>1. Moved("install")
    BY <1>6, <1>m DEF CheckVermagic
  <2>2. AvdTypeOK' /\ Filed
    BY <1>6, <2>1 DEF CheckVermagic, AvdTypeOK
  <2>3. Beside(b)
    BY <1>6, <1>o, <1>s, <2>1 DEF CheckVermagic, Beside
  <2>4. RunOK(b)'
    BY <1>6, <1>o, <1>n, <1>s, <2>1 DEF CheckVermagic, RunOK, AloneOK, Alone, BuildOK, PlaceOK, QuietOK, Changing, SeriesFor
  <2> QED
    BY <1>6, <2>1, <2>2, <2>3, <2>4 DEF CheckVermagic
<1>7. ASSUME VermagicMismatch(b) PROVE Tidy
  <2>1. Moved("idle")
    BY <1>7, <1>m DEF VermagicMismatch, Ends
  <2>2. AvdTypeOK' /\ Filed
    BY <1>7, <2>1 DEF VermagicMismatch, Ends, AvdTypeOK
  <2>3. Beside(b)
    BY <1>7, <1>o, <1>s, <2>1 DEF VermagicMismatch, Ends, Beside
  <2>4. RunOK(b)'
    BY <1>7, <1>o, <1>n, <1>s, <2>1 DEF VermagicMismatch, Ends, RunOK, AloneOK, Alone, BuildOK, PlaceOK, QuietOK, Changing, SeriesFor
  <2> QED
    BY <1>7, <2>1, <2>2, <2>3, <2>4 DEF VermagicMismatch, Ends
<1>8. ASSUME InstallFails(b) PROVE Tidy
  <2>1. Moved("idle")
    BY <1>8, <1>m DEF InstallFails, Ends
  <2>2. AvdTypeOK' /\ Filed
    BY <1>8, <2>1 DEF InstallFails, Ends, AvdTypeOK
  <2>3. Beside(b)
    BY <1>8, <1>o, <1>s, <2>1 DEF InstallFails, Ends, Beside
  <2>4. RunOK(b)'
    BY <1>8, <1>o, <1>n, <1>s, <2>1 DEF InstallFails, Ends, RunOK, AloneOK, Alone, BuildOK, PlaceOK, QuietOK, Changing, SeriesFor
  <2> QED
    BY <1>8, <2>1, <2>2, <2>3, <2>4 DEF InstallFails, Ends
<1>9. ASSUME Undo(b) PROVE Tidy
  <2>1. Moved("rm")
    BY <1>9, <1>m DEF Undo, Begins
  <2>2. AvdTypeOK' /\ Filed
    BY <1>9, <2>1 DEF Undo, Begins, AvdTypeOK
  <2>3. Beside(b)
    BY <1>9, <1>o, <1>s, <2>1 DEF Undo, Begins, Beside
  <2>4. RunOK(b)'
    BY <1>9, <1>o, <1>n, <1>s, <2>1 DEF Undo, Begins, RunOK, AloneOK, Alone, BuildOK, PlaceOK, QuietOK, Changing, SeriesFor
  <2> QED
    BY <1>9, <2>1, <2>2, <2>3, <2>4 DEF Undo, Begins
<1>10. ASSUME RmFails(b) PROVE Tidy
  <2>1. Moved("idle")
    BY <1>10, <1>m DEF RmFails, Ends
  <2>2. AvdTypeOK' /\ Filed
    BY <1>10, <2>1 DEF RmFails, Ends, AvdTypeOK
  <2>3. Beside(b)
    BY <1>10, <1>o, <1>s, <2>1 DEF RmFails, Ends, Beside
  <2>4. RunOK(b)'
    BY <1>10, <1>o, <1>n, <1>s, <2>1 DEF RmFails, Ends, RunOK, AloneOK, Alone, BuildOK, PlaceOK, QuietOK, Changing, SeriesFor
  <2> QED
    BY <1>10, <2>1, <2>2, <2>3, <2>4 DEF RmFails, Ends
<1>11. ASSUME Depmod(b) PROVE Tidy
  <2>1. \/ pc[b] = "depmod" /\ Moved("index")
        \/ pc[b] = "undepmod" /\ Moved("unindex")
    BY <1>11, <1>m DEF Depmod
  <2>2. AvdTypeOK' /\ Filed
    BY <1>11, <2>1 DEF Depmod, AvdTypeOK
  <2>3. Beside(b)
    BY <1>11, <1>o, <1>s, <2>1 DEF Depmod, Beside
  <2>4. b \in unspoiled /\ pc[b] = "depmod" => b \in found'
    <3>1. SUFFICES ASSUME b \in unspoiled, pc[b] = "depmod" PROVE override[running] # Absent
      BY <1>11 DEF Depmod
    <3>2. override[running].build \in Build
      BY <3>1, <1>k, BuildsAreBuilds DEF RunOK, PlaceOK
    <3> QED
      BY <3>2, BuildsAreBuilds DEF Absent
  <2>5. RunOK(b)'
    BY <1>11, <1>o, <1>s, <2>1, <2>4 DEF Depmod, RunOK, AloneOK, Alone, BuildOK, PlaceOK, QuietOK, Changing
  <2> QED
    BY <1>11, <2>1, <2>2, <2>3, <2>5 DEF Depmod
<1> QED
  BY <1>1, <1>2, <1>3, <1>4, <1>5, <1>6, <1>7, <1>8, <1>9, <1>10, <1>11

(* Its other commands.                                                     *)
LEMMA DiskStep ==
  ASSUME AvdInv, NEW b \in Builders,
         \/ Install(b) \/ Copy(b) \/ InstallIndex(b)
         \/ UndoNothing(b) \/ Rm(b) \/ UndoIndex(b) \/ BuilderInterrupted(b)
  PROVE  AvdInv'
<1> USE DEF machine, disk, tree, runs, notes, Goto
<1> AvdTypeOK /\ OverrideFitsItsKernel /\ LossIsReported /\ RunOK(b)
  BY DEF AvdInv
<1>b. \A k \in Kernels : SaidOK(k)
  BY DEF AvdInv
<1>s. /\ b \in Script /\ Builders \subseteq Script
      /\ \A s \in Swaps : s \in Script /\ s # b
  BY AvdAssumption DEF Script
<1>k. running \in Kernels /\ running # 0
  BY KernelsInOrder
<1>o. pc[b] # "idle" => unspoiled \subseteq {b} /\ (b \in unspoiled => Alone(b))
  BY OnlyOne
<1> Steps = {"idle", "checkout", "make", "vermagic", "install", "copy", "depmod", "index",
             "rm", "undepmod", "unindex", "lsmod", "rmmod", "insert", "wait"}
  BY DEF Steps
<1> DEFINE Moved(to) == /\ pc' \in [Script -> Steps] /\ pc'[b] = to
                        /\ \A t \in Script \ {b} : pc'[t] = pc[t]
           Set(f, v) == f'[running] = v /\ \A k \in Kernels \ {running} : f'[k] = f[k]
           Filed == /\ AvdTypeOK' /\ Beside(b) /\ RunOK(b)' /\ OverrideFitsItsKernel'
                    /\ UNCHANGED kernel /\ (\A s \in Script \ {b} : pc'[s] = pc[s])
                    /\ \A k \in Kernels : SaidOK(k)'
<1>m. ASSUME NEW to \in Steps, pc' = [pc EXCEPT ![b] = to] PROVE Moved(to)
  BY <1>m, <1>s, Gone
<1> SUFFICES Filed
  <2> SUFFICES ASSUME Filed PROVE AvdInv'
    OBVIOUS
  <2>1. LossIsReported'
    BY <1>s, KernelStays
  <2>2. \A c \in Builders : RunOK(c)'
    BY OthersStay
  <2> QED
    BY <2>1, <2>2 DEF AvdInv
<1>1. ASSUME Install(b) PROVE Filed
  <2> DEFINE new == [build |-> ko, whole |-> FALSE]
  <2>1. ko \in Build /\ ko.kernel = running
    BY <1>1 DEF Install, AvdTypeOK, RunOK, BuildOK
  <2>2. new \in [build : Build, whole : BOOLEAN] /\ new # Absent /\ new.build = ko
    BY <2>1, BuildsAreBuilds
  <2>3. override' = [override EXCEPT ![running] = new]
    BY <1>1 DEF Install
  <2> HIDE DEF new
  <2>4. override' \in [Kernels -> [build : Build, whole : BOOLEAN] \cup {Absent}]
    BY <2>2, <2>3 DEF AvdTypeOK
  <2>5. Set(override, new) /\ Set(said, "nothing")
    BY <1>1, <1>k, <2>3 DEF Install, AvdTypeOK
  <2>6. pc[b] = "install" /\ Moved("copy")
    BY <1>1, <1>m DEF Install
  <2>7. AvdTypeOK'
    BY <1>1, <2>4, <2>6 DEF Install, AvdTypeOK, kernel
  <2>8. Beside(b)
    BY <1>1, <1>o, <1>s, <2>5, <2>6 DEF Install, Beside
  <2>9. RunOK(b)'
    <3>1. b \in unspoiled => ko = SeriesFor(running)
      BY <2>6 DEF RunOK, BuildOK
    <3> QED
      BY <1>1, <1>o, <1>s, <2>2, <2>5, <2>6, <3>1
      DEF Install, RunOK, AloneOK, Alone, BuildOK, PlaceOK, QuietOK, Changing, SeriesFor
  <2>10. OverrideFitsItsKernel'
    BY <2>1, <2>2, <2>5 DEF OverrideFitsItsKernel
  <2>11. ASSUME NEW k \in Kernels PROVE SaidOK(k)'
    <3>1. CASE k = running
      BY <1>1, <2>2, <2>5, <3>1 DEF Install, SaidOK
    <3>2. CASE k # running
      BY <1>1, <1>b, <2>5, <3>2 DEF Install, SaidOK
    <3> QED
      BY <3>1, <3>2
  <2> QED
    BY <1>1, <2>6, <2>7, <2>8, <2>9, <2>10, <2>11 DEF Install
<1>2. ASSUME Copy(b) PROVE Filed
  <2> DEFINE new == [override[running] EXCEPT !.whole = @ \/ b \in placed]
  <2>1. override' = [override EXCEPT ![running] = new]
    BY <1>2 DEF Copy
  <2>2. /\ new \in [build : Build, whole : BOOLEAN] \cup {Absent}
        /\ new.build = override[running].build
        /\ new = Absent <=> override[running] = Absent
        /\ b \in placed => new.whole
    <3>1. CASE override[running] = Absent
      <4>1. (Absent.whole \/ b \in placed) = TRUE
        BY DEF Absent
      <4>2. new = [Absent EXCEPT !.whole = Absent.whole \/ b \in placed]
        BY <3>1
      <4>3. new = [Absent EXCEPT !.whole = TRUE]
        BY <4>1, <4>2
      <4> HIDE DEF new
      <4>4. new = Absent
        BY <4>3 DEF Absent
      <4> QED
        BY <3>1, <4>4 DEF Absent
    <3>2. CASE override[running] # Absent
      <4>1. override[running] \in [build : Build, whole : BOOLEAN]
        BY <1>k, <3>2, FileOrAbsent
      <4>2. /\ new \in [build : Build, whole : BOOLEAN] /\ new.build = override[running].build
            /\ b \in placed => new.whole
        BY <4>1
      <4>3. new # Absent
        BY <4>1, <4>2, BuildsAreBuilds DEF Absent
      <4> QED
        BY <3>2, <4>2, <4>3
    <3> QED
      BY <3>1, <3>2
  <2> HIDE DEF new
  <2>3. override' \in [Kernels -> [build : Build, whole : BOOLEAN] \cup {Absent}]
    BY <2>1, <2>2 DEF AvdTypeOK
  <2>4. Set(override, new)
    BY <1>k, <2>1 DEF AvdTypeOK
  <2>5. pc[b] = "copy" /\ Moved("depmod") /\ said[running] = "nothing"
    BY <1>2, <1>m DEF Copy, RunOK, QuietOK, Changing
  <2>6. AvdTypeOK'
    BY <1>2, <2>3, <2>5 DEF Copy, AvdTypeOK, kernel
  <2>7. Beside(b)
    BY <1>2, <1>o, <1>s, <2>5 DEF Copy, Beside
  <2>8. RunOK(b)'
    <3>1. b \in unspoiled => new.whole /\ new.build = SeriesFor(running)
      BY <2>2, <2>5 DEF RunOK, PlaceOK
    <3>2. /\ pc'[b] = "depmod" /\ override'[running] = new /\ said'[running] = "nothing"
          /\ unspoiled' = unspoiled /\ running' = running
      BY <1>2, <2>4, <2>5 DEF Copy
    <3>3. AloneOK(b)'
      BY <1>o, <1>s, <2>5, <3>2 DEF AloneOK, Alone
    <3> QED
      BY <3>1, <3>2, <3>3 DEF RunOK, BuildOK, PlaceOK, QuietOK, SeriesFor
  <2>9. OverrideFitsItsKernel'
    BY <1>k, <2>2, <2>4 DEF OverrideFitsItsKernel
  <2>10. ASSUME NEW k \in Kernels PROVE SaidOK(k)'
    BY <1>2, <1>b, <1>s, <2>2, <2>4, <2>5 DEF Copy, SaidOK
  <2> QED
    BY <1>2, <2>5, <2>6, <2>7, <2>8, <2>9, <2>10 DEF Copy
<1>3. ASSUME InstallIndex(b) PROVE Filed
  <2>1. pc[b] = "index" /\ Moved("idle")
    BY <1>3, <1>m DEF InstallIndex, Ends
  <2>2. /\ Set(index, b \in found) /\ Set(said, IF b \in unspoiled THEN "series" ELSE "nothing")
        /\ Set(torn, b \in found /\ override[running] = Absent)
    BY <1>3, <1>k DEF InstallIndex, Index, Says, AvdTypeOK
  <2>3. AvdTypeOK'
    <3>1. index' \in [Kernels -> BOOLEAN]
      <4> DEFINE seen == b \in found
      <4>1. seen \in BOOLEAN /\ index' = [index EXCEPT ![running] = seen]
        BY <1>3 DEF InstallIndex, Index
      <4> HIDE DEF seen
      <4> QED
        BY <4>1 DEF AvdTypeOK
    <3>2. torn' \in [Kernels -> BOOLEAN]
      <4> DEFINE gone == b \in found /\ override[running] = Absent
      <4>1. gone \in BOOLEAN /\ torn' = [torn EXCEPT ![running] = gone]
        BY <1>3 DEF InstallIndex, Index
      <4> HIDE DEF gone
      <4> QED
        BY <4>1 DEF AvdTypeOK
    <3>3. said' \in [Kernels -> {"in-tree", "series", "nothing"}]
      BY <1>3 DEF InstallIndex, Says, AvdTypeOK
    <3>4. rebuilt' \in BOOLEAN
      BY <1>3 DEF InstallIndex, AvdTypeOK
    <3> QED
      BY <1>3, <2>1, <3>1, <3>2, <3>3, <3>4 DEF InstallIndex, Ends, AvdTypeOK, kernel
  <2>4. Beside(b)
    BY <1>3, <1>o, <1>s, <2>1, <2>2 DEF InstallIndex, Ends, Beside
  <2>5. RunOK(b)'
    BY <1>3, <2>1 DEF InstallIndex, Ends, RunOK, AloneOK, BuildOK, PlaceOK, QuietOK, Changing
  <2>6. OverrideFitsItsKernel'
    BY <1>3 DEF InstallIndex, OverrideFitsItsKernel
  <2>7. b \in unspoiled => /\ override[running] = [build |-> SeriesFor(running), whole |-> TRUE]
                           /\ b \in found
    <3> SUFFICES ASSUME b \in unspoiled
                 PROVE  override[running] = [build |-> SeriesFor(running), whole |-> TRUE]
      BY <2>1 DEF RunOK, PlaceOK
    <3>1. override[running].build = SeriesFor(running) /\ override[running].whole
      BY <2>1 DEF RunOK, PlaceOK
    <3>2. override[running] \in [build : Build, whole : BOOLEAN]
      BY <1>k, <3>1, FileOrAbsent, BuildsAreBuilds DEF Absent
    <3> QED
      BY <3>1, <3>2
  <2>8. ASSUME NEW k \in Kernels PROVE SaidOK(k)'
    <3>1. CASE k = running
      BY <1>3, <2>2, <2>7, <3>1 DEF InstallIndex, SaidOK
    <3>2. CASE k # running
      BY <1>3, <1>b, <2>2, <3>2 DEF InstallIndex, SaidOK
    <3> QED
      BY <3>1, <3>2
  <2> QED
    BY <1>3, <2>1, <2>3, <2>4, <2>5, <2>6, <2>8 DEF InstallIndex
<1>4. ASSUME UndoNothing(b) PROVE Filed
  <2>1. pc[b] = "idle" /\ pc' = pc /\ unspoiled' = {} /\ override[running] = Absent
    BY <1>4 DEF UndoNothing
  <2>2. Set(said, IF Alone(b) THEN "in-tree" ELSE "nothing")
    BY <1>4, <1>k DEF UndoNothing, AvdTypeOK
  <2>3. AvdTypeOK'
    BY <1>4 DEF UndoNothing, AvdTypeOK, kernel
  <2>4. Beside(b)
    BY <1>4, <2>1, <2>2 DEF UndoNothing, Beside
  <2>5. RunOK(b)'
    BY <2>1 DEF RunOK, AloneOK, BuildOK, PlaceOK, QuietOK, Changing
  <2>6. OverrideFitsItsKernel'
    BY <1>4 DEF UndoNothing, OverrideFitsItsKernel
  <2>7. ASSUME NEW k \in Kernels PROVE SaidOK(k)'
    BY <1>4, <1>b, <2>1, <2>2 DEF UndoNothing, SaidOK
  <2> QED
    BY <1>4, <2>1, <2>3, <2>4, <2>5, <2>6, <2>7 DEF UndoNothing
<1>5. ASSUME Rm(b) PROVE Filed
  <2>1. pc[b] = "rm" /\ Moved("undepmod")
    BY <1>5, <1>m DEF Rm
  <2>2. Set(override, Absent) /\ Set(said, "nothing")
    BY <1>5, <1>k DEF Rm, AvdTypeOK
  <2>3. AvdTypeOK'
    BY <1>5, <2>1 DEF Rm, AvdTypeOK, kernel
  <2>4. Beside(b)
    BY <1>5, <1>o, <1>s, <2>1, <2>2 DEF Rm, Beside
  <2>5. RunOK(b)'
    BY <1>5, <1>o, <1>s, <2>1, <2>2
    DEF Rm, RunOK, AloneOK, Alone, BuildOK, PlaceOK, QuietOK, Changing
  <2>6. OverrideFitsItsKernel'
    BY <2>2 DEF OverrideFitsItsKernel
  <2>7. ASSUME NEW k \in Kernels PROVE SaidOK(k)'
    <3>1. CASE k = running
      BY <1>5, <2>1, <2>2, <3>1 DEF Rm, SaidOK
    <3>2. CASE k # running
      BY <1>5, <1>b, <2>2, <3>2 DEF Rm, SaidOK
    <3> QED
      BY <3>1, <3>2
  <2> QED
    BY <1>5, <2>1, <2>3, <2>4, <2>5, <2>6, <2>7 DEF Rm
<1>6. ASSUME UndoIndex(b) PROVE Filed
  <2>1. pc[b] = "unindex" /\ Moved("idle")
    BY <1>6, <1>m DEF UndoIndex, Ends
  <2>2. /\ Set(index, b \in found) /\ Set(said, IF b \in unspoiled THEN "in-tree" ELSE "nothing")
        /\ Set(torn, b \in found /\ override[running] = Absent)
    BY <1>6, <1>k DEF UndoIndex, Index, Says, AvdTypeOK
  <2>3. AvdTypeOK'
    <3>1. index' \in [Kernels -> BOOLEAN]
      <4> DEFINE seen == b \in found
      <4>1. seen \in BOOLEAN /\ index' = [index EXCEPT ![running] = seen]
        BY <1>6 DEF UndoIndex, Index
      <4> HIDE DEF seen
      <4> QED
        BY <4>1 DEF AvdTypeOK
    <3>2. torn' \in [Kernels -> BOOLEAN]
      <4> DEFINE gone == b \in found /\ override[running] = Absent
      <4>1. gone \in BOOLEAN /\ torn' = [torn EXCEPT ![running] = gone]
        BY <1>6 DEF UndoIndex, Index
      <4> HIDE DEF gone
      <4> QED
        BY <4>1 DEF AvdTypeOK
    <3>3. said' \in [Kernels -> {"in-tree", "series", "nothing"}]
      BY <1>6 DEF UndoIndex, Says, AvdTypeOK
    <3>4. rebuilt' \in BOOLEAN
      BY <1>6 DEF UndoIndex, AvdTypeOK
    <3> QED
      BY <1>6, <2>1, <3>1, <3>2, <3>3, <3>4 DEF UndoIndex, Ends, AvdTypeOK, kernel
  <2>4. Beside(b)
    BY <1>6, <1>o, <1>s, <2>1, <2>2 DEF UndoIndex, Ends, Beside
  <2>5. RunOK(b)'
    BY <1>6, <2>1 DEF UndoIndex, Ends, RunOK, AloneOK, BuildOK, PlaceOK, QuietOK, Changing
  <2>6. OverrideFitsItsKernel'
    BY <1>6 DEF UndoIndex, OverrideFitsItsKernel
  <2>7. b \in unspoiled => override[running] = Absent
    BY <2>1 DEF RunOK, PlaceOK
  <2>8. ASSUME NEW k \in Kernels PROVE SaidOK(k)'
    <3>1. CASE k = running
      BY <1>6, <2>2, <2>7, <3>1 DEF UndoIndex, SaidOK
    <3>2. CASE k # running
      BY <1>6, <1>b, <2>2, <3>2 DEF UndoIndex, SaidOK
    <3> QED
      BY <3>1, <3>2
  <2> QED
    BY <1>6, <2>1, <2>3, <2>4, <2>5, <2>6, <2>8 DEF UndoIndex
<1>7. ASSUME BuilderInterrupted(b) PROVE Filed
  <2>1. Moved("idle") /\ unspoiled' = unspoiled \ {b} /\ pc[b] # "idle"
    BY <1>7, <1>m DEF BuilderInterrupted, Ends
  <2>2. /\ torn' \in [Kernels -> BOOLEAN] /\ (\A k \in Kernels : torn[k] => torn'[k])
        /\ pc[b] \in {"undepmod", "unindex"} /\ override[running] = Absent => torn'[running]
    BY <1>7, <1>k DEF BuilderInterrupted, Torn, AvdTypeOK
  <2>3. AvdTypeOK'
    BY <1>7, <2>1, <2>2 DEF BuilderInterrupted, Ends, AvdTypeOK, kernel
  <2>4. Beside(b)
    BY <1>7, <1>o, <1>s, <2>1 DEF BuilderInterrupted, Beside
  <2>5. RunOK(b)'
    BY <2>1 DEF RunOK, AloneOK, BuildOK, PlaceOK, QuietOK, Changing
  <2>6. OverrideFitsItsKernel'
    BY <1>7 DEF BuilderInterrupted, OverrideFitsItsKernel
  <2>7. ASSUME NEW k \in Kernels PROVE SaidOK(k)'
    BY <1>7, <1>b, <1>s, <2>1, <2>2 DEF BuilderInterrupted, SaidOK
  <2> QED
    BY <1>7, <2>1, <2>3, <2>4, <2>5, <2>6, <2>7 DEF BuilderInterrupted
<1> QED
  BY <1>1, <1>2, <1>3, <1>4, <1>5, <1>6, <1>7

LEMMA AroundStep ==
  ASSUME AvdInv, OperatorBuilds \/ KernelUpdate \/ Boot
  PROVE  AvdInv'
<1> USE DEF machine, disk, tree, kernel, runs, notes
<1> AvdTypeOK /\ OverrideFitsItsKernel /\ LossIsReported
  BY DEF AvdInv
<1>a. \A b \in Builders : RunOK(b)
  BY DEF AvdInv
<1>b. \A k \in Kernels : SaidOK(k)
  BY DEF AvdInv
<1>k. running \in Kernels /\ newest \in Kernels /\ running # 0
  BY KernelsInOrder
<1>1. ASSUME OperatorBuilds PROVE AvdInv'
  <2>1. ko' \in Build \cup {None} /\ (ko' = ko \/ ko' = None \/ ko'.kernel = running)
    BY <1>1, <1>k DEF OperatorBuilds, Build, AvdTypeOK
  <2>2. AvdTypeOK' /\ LossIsReported'
    BY <1>1, <2>1 DEF OperatorBuilds, AvdTypeOK, LossIsReported
  <2>3. OverrideFitsItsKernel'
    BY <1>1 DEF OperatorBuilds, OverrideFitsItsKernel
  <2>4. ASSUME NEW c \in Builders PROVE RunOK(c)'
    BY <1>1, <1>a, <2>1 DEF OperatorBuilds, RunOK, AloneOK, Alone, BuildOK, PlaceOK, QuietOK, Changing
  <2>5. ASSUME NEW k \in Kernels PROVE SaidOK(k)'
    BY <1>b, <1>1 DEF OperatorBuilds, SaidOK
  <2> QED
    BY <2>2, <2>3, <2>4, <2>5 DEF AvdInv
<1>2. ASSUME KernelUpdate PROVE AvdInv'
  <2>1. newest' \in Kernels /\ running \in 1..newest'
    BY <1>2, AvdAssumption DEF KernelUpdate, AvdTypeOK, Kernels
  <2>2. AvdTypeOK' /\ LossIsReported'
    BY <1>2, <2>1 DEF KernelUpdate, AvdTypeOK, LossIsReported
  <2>3. OverrideFitsItsKernel'
    BY <1>2 DEF KernelUpdate, OverrideFitsItsKernel
  <2>4. ASSUME NEW c \in Builders PROVE RunOK(c)'
    BY <1>2, <1>a DEF KernelUpdate, RunOK, AloneOK, Alone, BuildOK, PlaceOK, QuietOK, Changing
  <2>5. ASSUME NEW k \in Kernels PROVE SaidOK(k)'
    BY <1>b, <1>2 DEF KernelUpdate, SaidOK
  <2> QED
    BY <2>2, <2>3, <2>4, <2>5 DEF AvdInv
<1>3. ASSUME Boot PROVE AvdInv'
  <2>1. /\ pc' \in [Script -> Steps] /\ (\A b \in Builders : pc'[b] = "idle")
        /\ unspoiled' = {}
    BY <1>3 DEF Boot, Script, Steps
  <2>2. torn' \in [Kernels -> BOOLEAN] /\ (\A k \in Kernels : torn[k] => torn'[k])
    BY <1>3, <1>k DEF Boot, Torn, AvdTypeOK
  <2>3. (\E b \in Builders : pc[b] \in {"undepmod", "unindex"}) /\ override[running] = Absent
          => torn'[running]
    BY <1>3, <1>k DEF Boot, Torn, AvdTypeOK
  <2>4. running' \in 1..newest'
    BY <1>3, <1>k, AvdAssumption DEF Boot, Kernels
  <2>5. AvdTypeOK' /\ LossIsReported'
    BY <1>3, <1>k, <2>1, <2>2, <2>4, PickedModules DEF Boot, AvdTypeOK, LossIsReported
  <2>6. OverrideFitsItsKernel'
    BY <1>3 DEF Boot, OverrideFitsItsKernel
  <2>7. ASSUME NEW c \in Builders PROVE RunOK(c)'
    BY <2>1 DEF RunOK, AloneOK, BuildOK, PlaceOK, QuietOK, Changing
  <2>8. ASSUME NEW k \in Kernels PROVE SaidOK(k)'
    BY <1>b, <1>3, <2>1, <2>2, <2>3 DEF Boot, SaidOK
  <2> QED
    BY <2>5, <2>6, <2>7, <2>8 DEF AvdInv
<1> QED
  BY <1>1, <1>2, <1>3

LEMMA AvdAlways == AvdSpec => []AvdInv
<1>1. ASSUME AvdInv, [AvdNext]_avdVars PROVE AvdInv'
  <2>1. CASE AvdNext
    <3> QED
      BY <1>1, <2>1, SwapStep, TreeStep, DiskStep, AroundStep DEF AvdNext
  <2>2. CASE UNCHANGED avdVars
    <3>1. Aside /\ AvdTypeOK' /\ LossIsReported'
      BY <1>1, <2>2 DEF AvdInv, Aside, avdVars, machine, disk, tree, kernel, runs, notes,
                        AvdTypeOK, LossIsReported
    <3> QED
      BY <1>1, <3>1, FilesStay DEF AvdInv
  <2> QED
    BY <1>1, <2>1, <2>2
<1> QED
  BY <1>1, AvdInitially, PTL DEF AvdSpec

-----------------------------------------------------------------------------

(* The variables keep their types. *)
THEOREM AvdTypeCorrect == AvdSpec => []AvdTypeOK
<1>1. AvdInv => AvdTypeOK
  BY DEF AvdInv
<1> QED
  BY <1>1, AvdAlways, PTL

(* No module for another kernel is ever installed, whatever was left in    *)
(* the tree.                                                               *)
THEOREM OverrideFits == AvdSpec => []OverrideFitsItsKernel
<1>1. AvdInv => OverrideFitsItsKernel
  BY DEF AvdInv
<1> QED
  BY <1>1, AvdAlways, PTL

(* What an install promised is what modprobe picks.                        *)
THEOREM SeriesPersists == AvdSpec => []SeriesIsPicked
<1>1. AvdInv => SeriesIsPicked
  <2> SUFFICES ASSUME AvdInv, NEW k \in Kernels, said[k] = "series"
               PROVE  Picks(k) = [branch |-> "series", kernel |-> k]
    BY DEF SeriesIsPicked
  <2>1. index[k] /\ override[k] = [build |-> SeriesFor(k), whole |-> TRUE]
    BY DEF AvdInv, SaidOK
  <2> QED
    BY <2>1 DEF Picks, SeriesFor
<1> QED
  BY <1>1, AvdAlways, PTL

(* What an undo promised is what modprobe picks, unless one was torn.      *)
THEOREM UndoPersists == AvdSpec => []UndoneStaysUndone
<1>1. AvdInv => UndoneStaysUndone
  <2> SUFFICES ASSUME AvdInv, NEW k \in Kernels, said[k] = "in-tree", ~torn[k]
               PROVE  Picks(k) = InTree
    BY DEF UndoneStaysUndone
  <2>1. SaidOK(k) /\ (\A b \in Builders : QuietOK(b)) /\ index[k] \in BOOLEAN
    BY DEF AvdInv, AvdTypeOK, RunOK
  <2>2. ~index[k]
    BY <2>1 DEF SaidOK, QuietOK, Changing
  <2> QED
    BY <2>2 DEF Picks
<1> QED
  BY <1>1, AvdAlways, PTL

(* The device does not stay away without a script or a boot that says so.  *)
THEOREM LossesReported == AvdSpec => []LossIsReported
<1>1. AvdInv => LossIsReported
  BY DEF AvdInv
<1> QED
  BY <1>1, AvdAlways, PTL

=============================================================================
