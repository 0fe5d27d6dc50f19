-------------------------- MODULE Baseliner_proofs --------------------------
(***************************************************************************)
(* Proofs about benchmark.sh and orchestrator.py, for every set of hosts:  *)
(* any number of sockets, threads, disks, partitions and cron runs, and    *)
(* with a command failing at any point of any run.                         *)
(***************************************************************************)
EXTENDS Baseliner, FiniteSetTheorems, TLAPS

Loops == {"off_msr", "off_gov", "restore_msr", "restore_gov"}
\* What comes after the CPUs have been put back.
Late == {"disks", "fio", "put", "done"}
Levels == [Threads -> {"on", "off"}]
\* A governor for each thread, whatever cpufreq calls it.
Governors(g) == g = [t \in Threads |-> g[t]]

\* The types, and where the loop variable is in each loop.
HostOK ==
    /\ machine \in Machines /\ runs \in 1 .. machine.cron
    /\ msr \in Levels /\ Governors(gov)
    /\ found.msr \in Levels /\ Governors(found.gov)
    /\ pc \in Phases \cup {"modprobe", "aborted"} \cup Loops \cup Late
    /\ dvfs \in {"yes", "no"}
    /\ n \in Nat /\ (pc \in Phases => n \in Sockets) /\ (pc \in Loops => n \in Threads)

\* How far the script is from the CPUs it found.  Untouched: as long as dvfs
\* is "yes".  In the loops over the threads: up to the loop variable.
CpuOK ==
    /\ (pc \in Phases \cup {"modprobe"} \cup Late /\ dvfs = "yes") => /\ msr = found.msr
                                                                     /\ gov = found.gov
    /\ pc \in Loops \cup {"extra"} => dvfs = "no"
    /\ pc = "modprobe" => dvfs = "yes" /\ n = 0
    /\ (pc = "modprobe" \/ dvfs = "no") => machine.dvfs
    /\ (pc \in Late /\ dvfs = "yes") => ~machine.dvfs
    /\ dvfs = "no" => oldgovernor = found.gov[0]
    /\ (pc \in Phases /\ dvfs = "no") => \A t \in Threads : msr[t] = "off" /\ gov[t] = "performance"
    /\ pc = "off_msr" => \A t \in Threads : t < n => msr[t] = "off" /\ gov[t] = "performance"
    /\ pc = "off_gov" => \A t \in Threads : /\ t <= n => msr[t] = "off"
                                            /\ t < n => gov[t] = "performance"
    /\ pc = "restore_msr" => \A t \in Threads : t < n => msr[t] = "on" /\ gov[t] = oldgovernor
    /\ pc = "restore_gov" => \A t \in Threads : /\ t <= n => msr[t] = "on"
                                                /\ t < n => gov[t] = oldgovernor
    /\ (pc \in Late /\ dvfs = "no") => \A t \in Threads : msr[t] = "on" /\ gov[t] = oldgovernor

FilesOK == LabelsTrue /\ (pc = "extra" => bin = "mt")

CpuInv == HostOK /\ CpuOK /\ FilesOK

-----------------------------------------------------------------------------
LEMMA MachineFacts ==
  ASSUME HostOK
  PROVE  /\ Machine(machine)
         /\ machine.nthreads \in Nat \ {0} /\ machine.nsockets \in Nat \ {0}
         /\ machine.cron \in Nat \ {0} /\ machine.dvfs \in BOOLEAN
         /\ Threads \subseteq Int /\ 0 \in Threads /\ 0 \in Sockets
<1>1. Machine(machine)
  BY BaselinerAssumption DEF HostOK
<1>2. QED
  BY <1>1 DEF Machine, Threads, Sockets

LEMMA InitHost == Init => HostOK
<1> SUFFICES ASSUME Init PROVE HostOK
  OBVIOUS
<1>1. Machine(machine)
  BY BaselinerAssumption DEF Init
<1>2. Governors(gov) /\ msr \in Levels
  BY <1>1 DEF Init, Machine, Governors, Levels, Threads
<1>3. found.msr \in Levels /\ Governors(found.gov)
  BY <1>2 DEF Init
<1>4. n \in Nat /\ n \in Sockets /\ runs \in 1 .. machine.cron
  BY <1>1 DEF Init, Machine, Sockets
<1>5. machine \in Machines /\ dvfs \in {"yes", "no"}
  BY DEF Init
<1>6. pc \in Phases /\ pc \notin Loops
  BY DEF Init, Phases, Loops
<1>7. QED
  BY <1>2, <1>3, <1>4, <1>5, <1>6 DEF HostOK

LEMMA InitCpu == Init => CpuInv
<1> SUFFICES ASSUME Init PROVE CpuInv
  OBVIOUS
<1>1. HostOK
  BY InitHost
<1>2. CpuOK
  BY DEF Init, CpuOK, Loops, Late
<1>3. FilesOK
  BY DEF Init, FilesOK, LabelsTrue
<1>4. QED
  BY <1>1, <1>2, <1>3 DEF CpuInv

\* The phase that follows, with DVFS and without.
LEMMA AfterPhase ==
  ASSUME HostOK, CpuOK, pc \in Phases
  PROVE  /\ After(pc) \in Phases \cup {"modprobe", "restore_msr", "disks"}
         /\ dvfs = "yes" => After(pc) \notin {"restore_msr", "extra"}
         /\ dvfs = "no" => After(pc) \notin {"modprobe", "disks"}
         /\ After(pc) = "modprobe" => machine.dvfs
         /\ After(pc) = "disks" => ~machine.dvfs
         /\ After(pc) = "extra" => pc = "mt"
<1>1. CASE dvfs = "yes"
  BY <1>1 DEF After, Phases, CpuOK
<1>2. CASE dvfs = "no"
  BY <1>2 DEF After, Phases
<1>3. QED
  BY <1>1, <1>2 DEF HostOK

-----------------------------------------------------------------------------
\* The threads and the sockets are the host's: nothing changes them.
LEMMA SameHost ==
  ASSUME machine' = machine
  PROVE  Threads' = Threads /\ Sockets' = Sockets /\ Levels' = Levels
BY DEF Threads, Sockets, Levels

\* One turn of a measurement: what it writes is labelled as it was measured.
LEMMA MeasuredTrue ==
  ASSUME CpuInv, pc \in Phases, NEW f \in Measured
  PROVE  /\ f.really = f.dvfs \/ (f.dvfs = "yes" /\ ~AsBefore(found.msr, found.gov))
         /\ f.phase \in {"st", "mt"} => f.built = f.phase
         /\ f.phase = "extra" => f.built = "mt"
<1>1. PICK name, i : f = Result(name, i)
  BY DEF Measured
<1>2. f.phase = pc /\ f.dvfs = dvfs /\ f.built = Built /\ f.really = Running
  BY <1>1 DEF Result
<1>3. Running = dvfs \/ (dvfs = "yes" /\ ~AsBefore(found.msr, found.gov))
  <2>1. CASE dvfs = "yes"
    <3>1. msr = found.msr /\ gov = found.gov
      BY <2>1 DEF CpuInv, CpuOK
    <3>2. QED
      BY <2>1, <3>1 DEF Running, Setting
  <2>2. CASE dvfs = "no"
    <3>1. \A t \in Threads : msr[t] = "off" /\ gov[t] = "performance"
      BY <2>2 DEF CpuInv, CpuOK
    <3>2. 0 \in Threads
      BY MachineFacts DEF CpuInv
    <3>3. ~AsBefore(msr, gov)
      BY <3>1, <3>2 DEF AsBefore, On
    <3>4. QED
      BY <2>2, <3>1, <3>3 DEF Running, Setting
  <2>3. QED
    BY <2>1, <2>2 DEF CpuInv, HostOK
<1>4. (pc \in {"st", "mt"} => Built = pc) /\ (pc = "extra" => Built = "mt")
  BY DEF Built, CpuInv, FilesOK
<1>5. QED
  BY <1>2, <1>3, <1>4

LEMMA BenchCpu ==
  ASSUME CpuInv, Bench
  PROVE  CpuInv'
<1> USE DEF CpuInv
<1>1. /\ UNCHANGED <<msr, gov, dvfs, oldgovernor, runs, machine, found>>
      /\ pc \in Phases /\ n \in Sockets
  BY DEF Bench, host, cron, HostOK
<1>2. Threads' = Threads /\ Sockets' = Sockets /\ Levels' = Levels
  BY <1>1, SameHost
<1>3. machine.nsockets \in Nat \ {0} /\ 0 \in Sockets
  BY MachineFacts
<1>4. /\ n' \in Sockets
      /\ \/ pc' = pc
         \/ pc' = After(pc) /\ n' = 0
  BY <1>1, <1>3 DEF Bench, Sockets
<1>5. /\ pc' \in Phases \cup {"modprobe", "restore_msr", "disks"}
      /\ dvfs = "yes" => pc' \notin {"restore_msr", "extra"}
      /\ dvfs = "no" => pc' \notin {"modprobe", "disks"}
      /\ pc' = "modprobe" => machine.dvfs
      /\ pc' = "disks" => ~machine.dvfs
      /\ pc' = "extra" => pc \in {"mt", "extra"}
      /\ pc' \in {"modprobe", "restore_msr"} => n' = 0
  <2>1. CASE pc' = pc
    <3>1. dvfs = "yes" => pc # "extra"
      BY DEF CpuOK
    <3>2. QED
      BY <1>1, <2>1, <3>1 DEF Phases
  <2>2. CASE pc' = After(pc) /\ n' = 0
    BY <1>1, <2>2, AfterPhase
  <2>3. QED
    BY <1>4, <2>1, <2>2
<1>6. HostOK'
  <2>1. n' \in Nat /\ (pc' \in Loops => n' \in Threads)
    BY <1>4, <1>5, MachineFacts DEF Sockets, Loops, Phases
  <2>2. pc' \in Phases \cup {"modprobe", "aborted"} \cup Loops \cup Late
    BY <1>5 DEF Loops, Late
  <2>3. QED
    BY <1>1, <1>2, <1>4, <2>1, <2>2 DEF HostOK, Governors
<1>7. CpuOK'
  <2>1. CASE dvfs = "yes"
    BY <1>1, <1>5, <2>1 DEF CpuOK, Loops, Late, Phases
  <2>2. CASE dvfs = "no"
    <3>1. \A t \in Threads : msr[t] = "off" /\ gov[t] = "performance"
      BY <1>1, <2>2 DEF CpuOK
    <3>2. pc' = "restore_msr" => \A t \in Threads : ~(t < n')
      BY <1>5 DEF Threads
    <3>3. pc' \in Phases \cup {"restore_msr"}
      BY <1>5, <2>2
    <3>4. QED
      BY <1>1, <1>2, <2>2, <3>1, <3>2, <3>3 DEF CpuOK, Phases, Loops, Late
  <2>3. QED
    BY <2>1, <2>2 DEF HostOK
<1>8. FilesOK'
  <2>1. files' = files \cup Measured /\ bin' = Built
    BY DEF Bench
  <2>2. AsBefore(found.msr, found.gov)' = AsBefore(found.msr, found.gov)
    BY <1>1, <1>2 DEF AsBefore, On
  <2>3. LabelsTrue'
    BY <1>1, <2>1, <2>2, MeasuredTrue DEF FilesOK, LabelsTrue
  <2>4. pc' = "extra" => bin' = "mt"
    BY <1>5, <2>1 DEF Built, FilesOK
  <2>5. QED
    BY <2>3, <2>4 DEF FilesOK
<1>9. QED
  BY <1>6, <1>7, <1>8

\* A step that leaves the result files, the label and what the run found.
LEMMA FilesKept ==
  ASSUME CpuInv, UNCHANGED <<files, bin, found, machine>>, pc' # "extra"
  PROVE  FilesOK'
<1>1. Threads' = Threads
  BY SameHost
<1>2. AsBefore(found.msr, found.gov)' = AsBefore(found.msr, found.gov)
  BY <1>1 DEF AsBefore, On
<1>3. QED
  BY <1>2 DEF CpuInv, FilesOK, LabelsTrue

LEMMA SaveGovernorCpu ==
  ASSUME CpuInv, SaveGovernor
  PROVE  CpuInv'
<1> USE DEF CpuInv
<1>1. /\ UNCHANGED <<msr, gov, n, bin, files, runs, machine, found>>
      /\ pc = "modprobe" /\ pc' = "off_msr" /\ dvfs' = "no" /\ oldgovernor' = gov[0]
  BY DEF SaveGovernor, host, cron
<1>2. Threads' = Threads /\ Sockets' = Sockets /\ Levels' = Levels
  BY <1>1, SameHost
<1>3. n = 0 /\ dvfs = "yes" /\ machine.dvfs /\ gov = found.gov
  BY <1>1 DEF CpuOK
<1>4. HostOK'
  BY <1>1, <1>2, <1>3, MachineFacts DEF HostOK, Governors, Phases, Loops
<1>5. \A t \in Threads : ~(t < n')
  BY <1>1, <1>3 DEF Threads
<1>6. CpuOK'
  BY <1>1, <1>2, <1>3, <1>5 DEF CpuOK, Phases, Loops, Late
<1>7. QED
  BY <1>1, <1>4, <1>6, FilesKept

LEMMA SetMsrCpu ==
  ASSUME CpuInv,
         \/ SetMsr("off_msr", "off_gov", "off")
         \/ SetMsr("restore_msr", "restore_gov", "on")
  PROVE  CpuInv'
<1> USE DEF CpuInv
<1>1. UNCHANGED <<gov, n, dvfs, oldgovernor, bin, files, runs, machine, found>>
  BY DEF SetMsr, shell, cron
<1>2. Threads' = Threads /\ Sockets' = Sockets /\ Levels' = Levels
  BY <1>1, SameHost
<1>3. n \in Threads /\ Threads \subseteq Int
  BY MachineFacts DEF SetMsr, HostOK, Loops
<1>4. CASE SetMsr("off_msr", "off_gov", "off")
  <2>1. msr' \in Levels /\ \A t \in Threads : msr'[t] = IF t = n THEN "off" ELSE msr[t]
    BY <1>3, <1>4 DEF SetMsr, HostOK, Levels
  <2>2. pc = "off_msr" /\ pc' = "off_gov"
    BY <1>4 DEF SetMsr
  <2>3. HostOK'
    BY <1>1, <1>2, <1>3, <2>1, <2>2 DEF HostOK, Governors, Phases, Loops
  <2>4. \A t \in Threads : (t <= n => msr'[t] = "off") /\ (t < n => gov[t] = "performance")
    BY <1>3, <2>1, <2>2 DEF CpuOK
  <2>5. CpuOK'
    BY <1>1, <1>2, <2>2, <2>4 DEF CpuOK, Phases, Loops, Late
  <2>6. QED
    BY <1>1, <2>2, <2>3, <2>5, FilesKept
<1>5. CASE SetMsr("restore_msr", "restore_gov", "on")
  <2>1. msr' \in Levels /\ \A t \in Threads : msr'[t] = IF t = n THEN "on" ELSE msr[t]
    BY <1>3, <1>5 DEF SetMsr, HostOK, Levels
  <2>2. pc = "restore_msr" /\ pc' = "restore_gov"
    BY <1>5 DEF SetMsr
  <2>3. HostOK'
    BY <1>1, <1>2, <1>3, <2>1, <2>2 DEF HostOK, Governors, Phases, Loops
  <2>4. \A t \in Threads : (t <= n => msr'[t] = "on") /\ (t < n => gov[t] = oldgovernor)
    BY <1>3, <2>1, <2>2 DEF CpuOK
  <2>5. CpuOK'
    BY <1>1, <1>2, <2>2, <2>4 DEF CpuOK, Phases, Loops, Late
  <2>6. QED
    BY <1>1, <2>2, <2>3, <2>5, FilesKept
<1>6. QED
  BY <1>4, <1>5

LEMMA SetGovernorCpu ==
  ASSUME CpuInv,
         \/ SetGovernor("off_gov", "off_msr", "stream", "performance")
         \/ SetGovernor("restore_gov", "restore_msr", "disks", Previous)
  PROVE  CpuInv'
<1> USE DEF CpuInv
<1>1. UNCHANGED <<msr, dvfs, oldgovernor, bin, files, runs, machine, found>>
  BY DEF SetGovernor, shell, cron
<1>2. Threads' = Threads /\ Sockets' = Sockets /\ Levels' = Levels
  BY <1>1, SameHost
<1>3. /\ n \in Threads /\ Threads = 0 .. machine.nthreads - 1 /\ machine.nthreads \in Nat
      /\ 0 \in Sockets /\ 0 \in Threads
  BY MachineFacts DEF SetGovernor, HostOK, Loops, Threads
<1>4. MoreThreads => n + 1 \in Threads
  BY <1>3 DEF MoreThreads
<1>5. ~MoreThreads => \A t \in Threads : t <= n
  BY <1>3 DEF MoreThreads
<1>6. \A t \in Threads : t < n + 1 => t <= n
  BY <1>3
<1>7. Governors(found.gov)'
  BY <1>1, <1>2 DEF HostOK, Governors
<1>8. CASE SetGovernor("off_gov", "off_msr", "stream", "performance")
  <2>1. /\ Governors(gov)' /\ pc = "off_gov"
        /\ \A t \in Threads : gov'[t] = IF t = n THEN "performance" ELSE gov[t]
    BY <1>2, <1>8 DEF SetGovernor, HostOK, Governors
  <2>2. \A t \in Threads : t <= n => msr[t] = "off" /\ gov'[t] = "performance"
    BY <1>3, <2>1 DEF CpuOK
  <2>3. CASE MoreThreads
    <3>1. n' = n + 1 /\ pc' = "off_msr"
      BY <1>8, <2>3 DEF SetGovernor
    <3>2. HostOK'
      BY <1>7, <1>1, <1>2, <1>3, <1>4, <2>1, <2>3, <3>1 DEF HostOK, Phases, Loops
    <3>3. CpuOK'
      BY <1>1, <1>2, <1>6, <2>1, <2>2, <3>1 DEF CpuOK, Phases, Loops, Late
    <3>4. QED
      BY <1>1, <3>1, <3>2, <3>3, FilesKept
  <2>4. CASE ~MoreThreads
    <3>1. n' = 0 /\ pc' = "stream"
      BY <1>8, <2>4 DEF SetGovernor
    <3>2. HostOK'
      BY <1>7, <1>1, <1>2, <1>3, <2>1, <3>1 DEF HostOK, Phases, Loops
    <3>3. CpuOK'
      BY <1>1, <1>2, <1>5, <2>1, <2>2, <2>4, <3>1 DEF CpuOK, Phases, Loops, Late
    <3>4. QED
      BY <1>1, <3>1, <3>2, <3>3, FilesKept
  <2>5. QED
    BY <2>3, <2>4
<1>9. CASE SetGovernor("restore_gov", "restore_msr", "disks", Previous)
  <2>1. /\ Governors(gov)' /\ pc = "restore_gov"
        /\ \A t \in Threads : gov'[t] = IF t = n THEN oldgovernor ELSE gov[t]
    BY <1>2, <1>9 DEF SetGovernor, HostOK, Governors, Previous
  <2>2. \A t \in Threads : t <= n => msr[t] = "on" /\ gov'[t] = oldgovernor
    BY <1>3, <2>1 DEF CpuOK
  <2>3. CASE MoreThreads
    <3>1. n' = n + 1 /\ pc' = "restore_msr"
      BY <1>9, <2>3 DEF SetGovernor
    <3>2. HostOK'
      BY <1>7, <1>1, <1>2, <1>3, <1>4, <2>1, <2>3, <3>1 DEF HostOK, Phases, Loops
    <3>3. CpuOK'
      BY <1>1, <1>2, <1>6, <2>1, <2>2, <3>1 DEF CpuOK, Phases, Loops, Late
    <3>4. QED
      BY <1>1, <3>1, <3>2, <3>3, FilesKept
  <2>4. CASE ~MoreThreads
    <3>1. n' = 0 /\ pc' = "disks"
      BY <1>9, <2>4 DEF SetGovernor
    <3>2. HostOK'
      BY <1>7, <1>1, <1>2, <1>3, <2>1, <3>1 DEF HostOK, Phases, Loops, Late
    <3>3. CpuOK'
      BY <1>1, <1>2, <1>5, <2>1, <2>2, <2>4, <3>1 DEF CpuOK, Phases, Loops, Late
    <3>4. QED
      BY <1>1, <3>1, <3>2, <3>3, FilesKept
  <2>5. QED
    BY <2>3, <2>4
<1>10. QED
  BY <1>8, <1>9

\* From the disks on the CPUs are left alone.
LEMMA LateCpu ==
  ASSUME CpuInv, pc \in Late, pc' \in Late \cup {"aborted"}, n' \in Nat,
         UNCHANGED <<msr, gov, dvfs, oldgovernor, runs, machine, found>>
  PROVE  HostOK' /\ CpuOK'
<1> USE DEF CpuInv
<1>1. Threads' = Threads /\ Sockets' = Sockets /\ Levels' = Levels
  BY SameHost
<1>2. HostOK'
  BY <1>1 DEF HostOK, Governors, Phases, Loops, Late
<1>3. CpuOK'
  BY <1>1 DEF CpuOK, Phases, Loops, Late
<1>4. QED
  BY <1>2, <1>3

LEMMA DisksCpu ==
  ASSUME CpuInv, SelectDisk \/ DiskInfo \/ RunFio
  PROVE  CpuInv'
<1>1. UNCHANGED <<msr, gov, dvfs, oldgovernor, bin, runs, machine, found>>
  BY DEF SelectDisk, DiskInfo, RunFio, host, shell, cron
<1>2. pc \in Late /\ pc' \in Late \cup {"aborted"}
  BY DEF SelectDisk, DiskInfo, RunFio, Late
<1>3. n \in Nat /\ n' \in Nat
  BY DEF SelectDisk, DiskInfo, RunFio, CpuInv, HostOK
<1>4. HostOK' /\ CpuOK'
  BY <1>1, <1>2, <1>3, LateCpu
<1>5. CASE UNCHANGED files
  BY <1>1, <1>2, <1>4, <1>5, FilesKept DEF CpuInv, Late
<1>6. CASE RunFio
  <2>1. AsBefore(found.msr, found.gov)' = AsBefore(found.msr, found.gov)
    BY <1>1, SameHost DEF AsBefore, On
  <2>2. \A f \in Fio(testdevs[n + 1]) : f.really = f.dvfs /\ f.phase = "fio"
    BY DEF Fio
  <2>3. LabelsTrue'
    BY <1>1, <1>6, <2>1, <2>2 DEF RunFio, CpuInv, FilesOK, LabelsTrue
  <2>4. QED
    BY <1>2, <1>4, <2>3 DEF CpuInv, FilesOK, Late
<1>7. QED
  BY <1>5, <1>6 DEF SelectDisk, DiskInfo, shell

LEMMA UploadCpu ==
  ASSUME CpuInv, StartUpload \/ NextCollection \/ \E p \in todo : Put(p)
  PROVE  CpuInv'
<1>1. UNCHANGED <<msr, gov, dvfs, oldgovernor, bin, files, runs, machine, found>>
  BY DEF StartUpload, NextCollection, Put, host, shell, cron
<1>2. pc \in Late /\ pc' \in Late
  BY DEF StartUpload, NextCollection, Put, Late
<1>3. n \in Nat /\ n' \in Nat
  BY DEF StartUpload, NextCollection, Put, CpuInv, HostOK
<1>4. HostOK' /\ CpuOK'
  BY <1>1, <1>2, <1>3, LateCpu
<1>5. QED
  BY <1>1, <1>2, <1>4, FilesKept DEF CpuInv, Late

LEMMA FailCpu ==
  ASSUME CpuInv, Fail
  PROVE  CpuInv'
<1> USE DEF CpuInv
<1>1. /\ UNCHANGED <<msr, gov, n, dvfs, oldgovernor, bin, files, runs, machine, found>>
      /\ pc' = "aborted"
  BY DEF Fail, host, shell, cron
<1>2. Threads' = Threads /\ Sockets' = Sockets /\ Levels' = Levels
  BY <1>1, SameHost
<1>3. HostOK'
  BY <1>1, <1>2 DEF HostOK, Governors, Phases, Loops
<1>4. CpuOK'
  BY <1>1, <1>2 DEF CpuOK, Phases, Loops, Late
<1>5. QED
  BY <1>1, <1>3, <1>4, FilesKept

LEMMA CronCpu ==
  ASSUME CpuInv, Cron
  PROVE  CpuInv'
<1> USE DEF CpuInv
<1>1. /\ UNCHANGED <<msr, gov, machine>> /\ found' = [msr |-> msr, gov |-> gov]
      /\ runs < machine.cron /\ runs' = runs + 1
      /\ pc' = "st" /\ n' = 0 /\ dvfs' = "yes" /\ files' = {}
  BY DEF Cron, Fresh, host
<1>2. Threads' = Threads /\ Sockets' = Sockets /\ Levels' = Levels
  BY <1>1, SameHost
<1>3. HostOK'
  BY <1>1, <1>2, MachineFacts DEF HostOK, Governors, Phases, Loops
<1>4. CpuOK'
  BY <1>1, <1>2 DEF CpuOK, Phases, Loops, Late
<1>5. FilesOK'
  BY <1>1 DEF FilesOK, LabelsTrue
<1>6. QED
  BY <1>3, <1>4, <1>5

\* The invariant of the CPUs and of the labels holds in every state of every run.
LEMMA CpuInvariance == Spec => []CpuInv
<1>1. ASSUME CpuInv, UNCHANGED vars PROVE CpuInv'
  <2>1. Threads' = Threads /\ Sockets' = Sockets /\ Levels' = Levels
    BY <1>1, SameHost DEF vars, cron
  <2>2. HostOK'
    BY <1>1, <2>1 DEF CpuInv, HostOK, Governors, vars, host, shell, cron
  <2>3. CpuOK'
    BY <1>1, <2>1 DEF CpuInv, CpuOK, vars, host, shell, cron
  <2>4. FilesOK'
    BY <1>1, <2>1 DEF CpuInv, FilesOK, LabelsTrue, AsBefore, On, vars, shell, cron
  <2>5. QED
    BY <2>2, <2>3, <2>4 DEF CpuInv
<1>2. CpuInv /\ Script => CpuInv'
  BY BenchCpu, SaveGovernorCpu, SetMsrCpu, SetGovernorCpu, DisksCpu, UploadCpu
  DEF Script, TurnOff, ChangeBack
<1>3. CpuInv /\ [Next]_vars => CpuInv'
  BY <1>1, <1>2, FailCpu, CronCpu DEF Next
<1>4. QED
  BY InitCpu, <1>3, PTL DEF Spec

\* However often runs break off and start again, what a result file says of
\* itself (DVFS on or off, the build it used) is how it was measured, unless
\* the run found clock modulation or governors other than before the first run.
THEOREM LabelsCorrect == Spec => []LabelsTrue
<1>1. CpuInv => LabelsTrue
  BY DEF CpuInv, FilesOK
<1>2. QED
  BY <1>1, CpuInvariance, PTL

\* A run that completes has put every thread back: its clock modulation, and,
\* when all threads had one governor, the governor.
THEOREM RestoreCorrect == Spec => []HostRestored
<1>1. CpuInv => HostRestored
  <2> SUFFICES ASSUME CpuInv, pc = "done" PROVE
         /\ (\A t \in Threads : found.gov[t] = found.gov[0]) => gov = found.gov
         /\ On(found.msr) \/ machine.dvfs => On(msr)
    BY DEF HostRestored
  <2>1. CASE dvfs = "yes"
    BY <2>1 DEF CpuInv, CpuOK, Late
  <2>2. CASE dvfs = "no"
    <3>1. /\ \A t \in Threads : msr[t] = "on" /\ gov[t] = oldgovernor
          /\ oldgovernor = found.gov[0]
      BY <2>2 DEF CpuInv, CpuOK, Late
    <3>2. On(msr)
      BY <3>1 DEF On
    <3>3. (\A t \in Threads : found.gov[t] = found.gov[0]) => gov = found.gov
      BY <3>1 DEF CpuInv, HostOK, Governors
    <3>4. QED
      BY <3>2, <3>3
  <2>3. QED
    BY <2>1, <2>2 DEF CpuInv, HostOK
<1>2. QED
  BY <1>1, CpuInvariance, PTL
-----------------------------------------------------------------------------
\* The disks.

\* The partitions the script may write over.
Spare == {w \in ToSet(machine.disks) \X Nat :
            w[2] \in DOMAIN parts[w[1]] /\ parts[w[1]][w[2]] # "data"}

Labels == {"Empty", "data", "new"}

\* What is to be tested, and what was written over, is spare.
DisksOK ==
    /\ parts \in [ToSet(machine.disks) -> Seq(Labels)]
    /\ gaps \in [ToSet(machine.disks) -> Nat]
    /\ testdevs \in Seq(Spare)
    /\ wiped \subseteq Spare

\* A non-empty set of positions has a last one.
LEMMA LastOfIsLast ==
  ASSUME NEW k \in Nat, NEW S \in SUBSET (1 .. k), S # {}
  PROVE  LastOf(S) \in S
<1> DEFINE T == {j \in Nat : k - j \in S}
           R == OpToRel(<, Nat)
<1>1. T \in SUBSET Nat /\ T # {}
  <2>1. PICK x \in S : TRUE
    OBVIOUS
  <2>2. k - x \in Nat /\ k - (k - x) = x
    OBVIOUS
  <2>3. QED
    BY <2>1, <2>2
<1>2. IsWellFoundedOn(R, Nat)
  BY NatLessThanWellFounded
<1>3. \E x \in T : \A y \in T : ~(<<y, x>> \in R)
  <2> HIDE DEF R, T
  <2>1. QED
    BY <1>1, <1>2, WFMin
<1>4. PICK x \in T : \A y \in T : ~(<<y, x>> \in R)
  BY <1>3
<1>5. \A y \in T : x <= y
  <2>1. \A y \in T : ~(y < x)
    BY <1>4 DEF OpToRel
  <2>2. QED
    BY <2>1
<1>6. \A y \in S : y <= k - x
  <2> SUFFICES ASSUME NEW y \in S PROVE y <= k - x
    OBVIOUS
  <2>1. y \in 1 .. k
    OBVIOUS
  <2>2. k - y \in Nat /\ k - (k - y) = y
    BY <2>1
  <2>3. k - y \in T
    BY <2>2
  <2>4. x <= k - y /\ x \in Nat
    BY <1>5, <2>3
  <2>5. QED
    BY <2>1, <2>4
<1>7. k - x \in S
  OBVIOUS
<1>8. QED
  BY <1>6, <1>7 DEF LastOf

\* The devices the loop goes over are devices of the host.
LEMMA RawNamesOfHost ==
  ASSUME HostOK
  PROVE  /\ RawNames \in Seq(ToSet(machine.disks))
         /\ \A i \in 1 .. Len(RawNames) : RawNames[i] \in ToSet(machine.disks)
<1>1. machine.disks \in Seq(STRING)
  BY MachineFacts DEF Machine
<1>2. machine.disks \in Seq(ToSet(machine.disks))
  BY <1>1 DEF ToSet
<1>3. RawNames \in Seq(ToSet(machine.disks))
  <2>1. CASE Len(machine.disks) = 4
    <3>1. machine.disks[1] \in ToSet(machine.disks)
      BY <1>1, <2>1 DEF ToSet
    <3>2. QED
      BY <2>1, <3>1 DEF RawNames
  <2>2. CASE Len(machine.disks) # 4
    BY <1>2, <2>2 DEF RawNames
  <2>3. QED
    BY <2>1, <2>2
<1>4. QED
  BY <1>3

LEMMA InitDisks == Init => DisksOK
<1> SUFFICES ASSUME Init PROVE DisksOK
  OBVIOUS
<1>1. Machine(machine)
  BY BaselinerAssumption DEF Init
<1>2. parts \in [ToSet(machine.disks) -> Seq({"Empty", "data"})]
  BY <1>1 DEF Machine, Init
<1>3. parts \in [ToSet(machine.disks) -> Seq(Labels)]
  <2>1. \A q \in Seq({"Empty", "data"}) : q \in Seq(Labels)
    BY DEF Labels
  <2>2. QED
    BY <1>2, <2>1
<1>4. QED
  BY <1>1, <1>3 DEF Init, DisksOK, Machine

\* Steps that leave the disks alone.
LEMMA DisksKept ==
  ASSUME DisksOK, UNCHANGED <<parts, gaps, machine>>,
         testdevs' \in Seq(Spare), wiped' \subseteq Spare
  PROVE  DisksOK'
BY DEF DisksOK, Spare

LEMMA SelectDiskSpares ==
  ASSUME HostOK, DisksOK, SelectDisk
  PROVE  DisksOK'
<1> DEFINE d == RawNames[n + 1]
<1>1. UNCHANGED <<wiped, machine>>
  BY DEF SelectDisk, cron
<1>2. n + 1 \in 1 .. Len(RawNames)
  BY RawNamesOfHost DEF SelectDisk, HostOK
<1>3. d \in ToSet(machine.disks)
  BY <1>2, RawNamesOfHost
<1>4. parts[d] \in Seq(Labels)
  BY <1>3 DEF DisksOK
<1>5. CASE UNCHANGED <<testdevs, parts, gaps>>
  BY <1>1, <1>5, DisksKept DEF DisksOK
<1>6. CASE /\ TestParts(d) # {} /\ Choose(d, LastOf(TestParts(d)))
           /\ UNCHANGED <<parts, gaps>>
  <2>1. TestParts(d) \in SUBSET (1 .. Len(parts[d])) /\ Len(parts[d]) \in Nat
    BY <1>4 DEF TestParts
  <2>2. LastOf(TestParts(d)) \in TestParts(d)
    BY <1>6, <2>1, LastOfIsLast
  <2> DEFINE k == LastOf(TestParts(d))
  <2>3. k \in Nat /\ k \in DOMAIN parts[d] /\ parts[d][k] = "Empty"
    BY <2>1, <2>2 DEF TestParts
  <2> HIDE DEF k, d
  <2>4. <<d, k>> \in Spare
    BY <1>3, <2>3 DEF Spare
  <2>5. testdevs' = Append(testdevs, <<d, k>>)
    BY <1>6 DEF Choose, k
  <2>6. testdevs' \in Seq(Spare)
    BY <2>4, <2>5 DEF DisksOK
  <2>7. QED
    BY <1>1, <1>6, <2>6, DisksKept DEF DisksOK
<1>7. CASE /\ gaps[d] > 0
           /\ parts' = [parts EXCEPT ![d] = Append(@, "new")]
           /\ gaps' = [gaps EXCEPT ![d] = @ - 1]
           /\ Choose(d, Len(parts[d]) + 1)
  <2> DEFINE k == Len(parts[d]) + 1
  <2> HIDE DEF d
  <2>1. /\ Append(parts[d], "new") \in Seq(Labels)
        /\ Len(Append(parts[d], "new")) = k /\ k \in Nat /\ k > 0
        /\ Append(parts[d], "new")[k] = "new"
        /\ \A i \in DOMAIN parts[d] : i \in 1 .. k - 1 /\ Append(parts[d], "new")[i] = parts[d][i]
    BY <1>4 DEF Labels
  <2>2. DOMAIN Append(parts[d], "new") = 1 .. k
    BY <2>1
  <2>3. parts' \in [ToSet(machine.disks) -> Seq(Labels)]
    BY <1>3, <1>7, <2>1 DEF DisksOK
  <2>4. gaps' \in [ToSet(machine.disks) -> Nat]
    BY <1>3, <1>7 DEF DisksOK
  <2>5. \A e \in ToSet(machine.disks) :
          parts'[e] = IF e = d THEN Append(parts[d], "new") ELSE parts[e]
    BY <1>3, <1>7 DEF DisksOK
  <2> HIDE DEF k
  <2>6. Spare \subseteq Spare'
    <3> SUFFICES ASSUME NEW w \in Spare PROVE w \in Spare'
      OBVIOUS
    <3>1. /\ w \in ToSet(machine.disks) \X Nat /\ w[1] \in ToSet(machine.disks) /\ w[2] \in Nat
          /\ w[2] \in DOMAIN parts[w[1]] /\ parts[w[1]][w[2]] # "data"
      BY DEF Spare
    <3>2. w[2] \in DOMAIN parts'[w[1]] /\ parts'[w[1]][w[2]] # "data"
      <4>1. CASE w[1] = d
        <5>1. parts'[w[1]] = Append(parts[d], "new") /\ w[2] \in DOMAIN parts[d]
          BY <2>5, <3>1, <4>1
        <5>2. w[2] \in 1 .. k /\ Append(parts[d], "new")[w[2]] = parts[d][w[2]]
          BY <2>1, <5>1
        <5>3. QED
          BY <2>2, <3>1, <4>1, <5>1, <5>2
      <4>2. CASE w[1] # d
        BY <2>5, <3>1, <4>2
      <4>3. QED
        BY <4>1, <4>2
    <3>3. QED
      BY <1>1, <3>1, <3>2 DEF Spare
  <2>7. <<d, k>> \in Spare'
    <3>1. parts'[d] = Append(parts[d], "new")
      BY <1>3, <2>5
    <3>2. k \in Nat /\ k > 0 /\ Append(parts[d], "new")[k] = "new"
      BY <2>1
    <3>3. k \in DOMAIN parts'[d] /\ parts'[d][k] = "new"
      BY <2>2, <3>1, <3>2
    <3>4. QED
      BY <1>1, <1>3, <3>2, <3>3 DEF Spare
  <2>8. testdevs' = Append(testdevs, <<d, k>>)
    BY <1>7 DEF Choose, k
  <2>9. testdevs \in Seq(Spare')
    BY <2>6 DEF DisksOK
  <2>10. testdevs' \in Seq(Spare')
    BY <2>7, <2>8, <2>9
  <2>11. wiped' \subseteq Spare'
    BY <1>1, <2>6 DEF DisksOK
  <2>12. QED
    BY <1>1, <2>3, <2>4, <2>10, <2>11 DEF DisksOK
<1>8. QED
  BY <1>5, <1>6, <1>7 DEF SelectDisk

LEMMA RunFioSpares ==
  ASSUME HostOK, DisksOK, RunFio
  PROVE  DisksOK'
<1>1. n + 1 \in 1 .. Len(testdevs) /\ testdevs \in Seq(Spare)
  BY DEF RunFio, HostOK, DisksOK
<1>2. testdevs[n + 1] \in Spare
  BY <1>1
<1>3. wiped' \subseteq Spare
  BY <1>2 DEF RunFio, DisksOK
<1>4. QED
  BY <1>1, <1>3, DisksKept DEF RunFio, cron

LEMMA DisksInvariance == Spec => []DisksOK
<1>1. ASSUME DisksOK, UNCHANGED <<table, testdevs, machine>> PROVE DisksOK'
  BY <1>1, DisksKept DEF table, DisksOK
<1>2. ASSUME DisksOK, Cron PROVE DisksOK'
  BY <1>2, DisksKept DEF Cron, Fresh, table, DisksOK
<1>3. DisksOK /\ (Bench \/ SaveGovernor \/ DiskInfo \/ Fail \/ UNCHANGED vars) => DisksOK'
  BY <1>1 DEF Bench, SaveGovernor, DiskInfo, Fail, vars, cron
<1>4. DisksOK /\ (TurnOff \/ ChangeBack) => DisksOK'
  BY <1>1 DEF TurnOff, ChangeBack, SetMsr, SetGovernor, cron
<1>5. DisksOK /\ (StartUpload \/ NextCollection \/ \E p \in todo : Put(p)) => DisksOK'
  BY <1>1 DEF StartUpload, NextCollection, Put, cron
<1>6. CpuInv /\ DisksOK /\ [Next]_vars => DisksOK'
  BY <1>2, <1>3, <1>4, <1>5, SelectDiskSpares, RunFioSpares DEF Next, Script, CpuInv
<1>7. QED
  BY InitDisks, <1>6, CpuInvariance, PTL DEF Spec

\* fio never writes over a partition that holds data, whatever the partition
\* tables look like and however many runs there have been.
THEOREM DataSafe == Spec => []DataSpared
<1>1. DisksOK => DataSpared
  BY DEF DisksOK, DataSpared, Spare
<1>2. QED
  BY <1>1, DisksInvariance, PTL

\* The script's variables keep their types, its loops their bounds, and every
\* device to be tested exists.
THEOREM TypeCorrect == Spec => []TypeOK
<1>1. CpuInv /\ DisksOK => TypeOK
  <2> SUFFICES ASSUME CpuInv, DisksOK PROVE TypeOK
    OBVIOUS
  <2>1. \A i \in DOMAIN testdevs : testdevs[i] \in Spare
    BY DEF DisksOK
  <2>2. \A i \in DOMAIN testdevs : testdevs[i][2] \in DOMAIN parts[testdevs[i][1]]
    BY <2>1 DEF Spare
  <2>3. DOMAIN gov = Threads
    BY DEF CpuInv, HostOK, Governors
  <2>4. QED
    BY <2>2, <2>3 DEF CpuInv, HostOK, TypeOK, Levels, Loops
<1>2. QED
  BY <1>1, CpuInvariance, DisksInvariance, PTL
-----------------------------------------------------------------------------
\* What orchestrator.py saves.

\* The CPUs as a measurement before modprobe sees them.
Seen == Setting(found.msr, found.gov)

\* The membench or stream file of a socket, with DVFS on.
MemFile(c, s) == [phase |-> c, name |-> c, run |-> 0, socket |-> s, dvfs |-> "yes",
                  built |-> "mt", really |-> Seen]

\* The membench and stream files with DVFS, up to the loop variable in their
\* own loop and all of them from then on.
MemOK ==
    /\ (pc \in {"membench", "stream"} /\ dvfs = "yes") => bin = "mt"
    /\ \A f \in files : /\ f.phase \in Phases \cup {"fio"}
                        /\ f.phase \in Phases => f.socket \in Sockets
                        /\ (f.phase \in {"membench", "stream"} /\ f.dvfs = "yes") =>
                              f = MemFile(f.phase, f.socket)
    /\ (pc = "membench" /\ dvfs = "yes") =>
          \A s \in Sockets : s < n => MemFile("membench", s) \in files
    /\ (pc \in {"stream", "modprobe"} \cup Late \/ dvfs = "no") =>
          \A s \in Sockets : MemFile("membench", s) \in files
    /\ (pc = "stream" /\ dvfs = "yes") =>
          \A s \in Sockets : s < n => MemFile("stream", s) \in files
    /\ (pc \in {"modprobe"} \cup Late \/ dvfs = "no") =>
          \A s \in Sockets : MemFile("stream", s) \in files

\* disks.txt has the devices fio is done with, and they have their files.
Devices == ToSet(machine.disks) \X Nat
FioOK ==
    /\ disks \in Seq(Devices) /\ Len(disks) <= Len(testdevs)
    /\ \A i \in 1 .. Len(disks) : disks[i] = testdevs[i]
    /\ pc \in Phases \cup {"modprobe", "disks"} \cup Loops => disks = <<>>
    /\ pc = "fio" => Len(disks) = n
    /\ pc \in {"put", "done"} => Len(disks) = Len(testdevs)
    /\ \A f \in files : f.phase = "fio" => \E d \in ToSet(disks) : f \in Fio(d)
    /\ \A d \in ToSet(disks) : Fio(d) \subseteq files

\* The database: earlier runs, and of this one what has been uploaded so far.
SocketsTrue(S) == \A p \in S : p.coll \in {"st", "mt"} => p.tag = p.file.socket
DbOK ==
    /\ SocketsTrue(db)
    /\ (db # {} \/ pc = "put") => \E p \in db : p.coll = "info"
    /\ \A p \in db : p.run \in Nat /\ p.run <= runs
    /\ pc \notin {"put", "done", "aborted"} => \A p \in db : p.run < runs
    /\ pc = "put" =>
         /\ n \in 1 .. 5 /\ todo \subseteq PointsOf(Order[n])
         /\ \A j \in 1 .. 5 : Of(Order[j]) = IF j < n THEN PointsOf(Order[j])
                                        ELSE IF j = n THEN PointsOf(Order[n]) \ todo ELSE {}
    /\ pc = "done" => \A j \in 1 .. 5 : Of(Order[j]) = PointsOf(Order[j])

SavedInv == MemOK /\ FioOK /\ DbOK

\* The test on a file name tells up to ten sockets apart.
FewSockets == \A m \in Machines : m.nsockets <= 10

LEMMA SocketInName ==
  ASSUME FewSockets, HostOK, NEW a \in Sockets, NEW b \in Sockets, InName(a, b)
  PROVE  a = b
<1>1. machine.nsockets \in Nat /\ machine.nsockets <= 10
  BY MachineFacts DEF FewSockets, HostOK
<1>2. a \in 0 .. 9 /\ b \in 0 .. 9
  BY <1>1 DEF Sockets
<1>3. b \div 10 = 0 /\ b \div 100 = 0
  BY <1>2
<1>4. QED
  BY <1>3 DEF InName

LEMMA MemNext ==
  ASSUME CpuInv, MemOK, UNCHANGED <<found, machine>>, files \subseteq files',
         \A f \in files' : f \in files \/ f.phase = "fio",
         pc' \notin {"membench", "stream"} \/ dvfs' = "no",
         (pc' \in {"modprobe"} \cup Late \/ dvfs' = "no") =>
            (pc \in {"modprobe"} \cup Late \/ dvfs = "no")
  PROVE  MemOK'
<1>1. Threads' = Threads /\ Sockets' = Sockets
  BY SameHost
<1>2. Seen' = Seen
  BY <1>1 DEF Seen, Setting, AsBefore, On
<1>3. \A c, s : MemFile(c, s)' = MemFile(c, s)
  BY <1>2 DEF MemFile
<1>4. \A f \in files' : /\ f.phase \in Phases \cup {"fio"}
                        /\ f.phase \in Phases => f.socket \in Sockets'
                        /\ (f.phase \in {"membench", "stream"} /\ f.dvfs = "yes") =>
                              f = MemFile(f.phase, f.socket)'
  BY <1>1, <1>3 DEF MemOK, Phases
<1>5. (pc' \in {"modprobe"} \cup Late \/ dvfs' = "no") =>
         \A s \in Sockets : MemFile("membench", s) \in files' /\ MemFile("stream", s) \in files'
  BY DEF MemOK
<1>6. "membench" # "stream" /\ ~("membench" \in Late) /\ ~("stream" \in Late)
  BY DEF Late
<1>7. dvfs' = "no" => dvfs' # "yes"
  OBVIOUS
<1>8. QED
  BY <1>1, <1>3, <1>4, <1>5, <1>6, <1>7 DEF MemOK

\* What one turn writes, and which files the turns of a loop make complete.
LEMMA BenchMem ==
  ASSUME CpuInv, MemOK, Bench
  PROVE  MemOK'
<1>1. /\ UNCHANGED <<msr, gov, dvfs, oldgovernor, runs, machine, found>>
      /\ pc \in Phases /\ n \in Sockets
      /\ files' = files \cup Measured /\ bin' = Built
      /\ IF n < machine.nsockets - 1 THEN n' = n + 1 /\ pc' = pc
                                     ELSE n' = 0 /\ pc' = After(pc)
  BY DEF Bench, host, cron, CpuInv, HostOK
<1>2. Threads' = Threads /\ Sockets' = Sockets
  BY <1>1, SameHost
<1>3. Seen' = Seen
  BY <1>1, <1>2 DEF Seen, Setting, AsBefore, On
<1>4. \A c, s : MemFile(c, s)' = MemFile(c, s)
  BY <1>3 DEF MemFile
<1>5. dvfs \in {"yes", "no"} /\ (pc = "extra" => dvfs = "no")
  BY DEF CpuInv, HostOK, CpuOK
<1>6. \A f \in Measured : f.phase = pc /\ f.socket = n /\ f.dvfs = dvfs
  BY DEF Measured, Result
<1>7. (pc \in {"membench", "stream"} /\ dvfs = "yes") => Measured = {MemFile(pc, n)}
  <2> SUFFICES ASSUME pc \in {"membench", "stream"}, dvfs = "yes"
               PROVE  Measured = {MemFile(pc, n)}
    OBVIOUS
  <2>1. msr = found.msr /\ gov = found.gov
    BY DEF CpuInv, CpuOK, Phases
  <2>2. Running = Seen
    BY <2>1 DEF Running, Seen
  <2>3. Built = "mt"
    BY DEF Built, MemOK
  <2>4. QED
    BY <2>2, <2>3 DEF Measured, Result, MemFile
<1>8. \A f \in files' : /\ f.phase \in Phases \cup {"fio"}
                        /\ f.phase \in Phases => f.socket \in Sockets'
                        /\ (f.phase \in {"membench", "stream"} /\ f.dvfs = "yes") =>
                              f = MemFile(f.phase, f.socket)'
  <2> SUFFICES ASSUME NEW f \in files'
               PROVE  /\ f.phase \in Phases \cup {"fio"}
                      /\ f.phase \in Phases => f.socket \in Sockets'
                      /\ (f.phase \in {"membench", "stream"} /\ f.dvfs = "yes") =>
                            f = MemFile(f.phase, f.socket)'
    OBVIOUS
  <2>1. CASE f \in files
    BY <1>2, <1>4, <2>1 DEF MemOK
  <2>2. CASE f \in Measured
    BY <1>1, <1>2, <1>4, <1>6, <1>7, <2>2
  <2>3. QED
    BY <1>1, <2>1, <2>2
<1>9. /\ (pc' = "membench" /\ dvfs = "yes") =>
            (pc = "mt" /\ n' = 0) \/ (pc = "membench" /\ n' = n + 1)
      /\ (pc' = "stream" /\ dvfs = "yes") =>
            /\ (pc = "membench" /\ n' = 0) \/ (pc = "stream" /\ n' = n + 1)
            /\ pc = "membench" => ~(n < machine.nsockets - 1)
      /\ (pc' \in {"modprobe"} \cup Late /\ dvfs = "yes") => /\ pc = "stream"
                                                           /\ ~(n < machine.nsockets - 1)
  <2>1. CASE n < machine.nsockets - 1
    BY <1>1, <2>1 DEF Phases, Late
  <2>2. CASE ~(n < machine.nsockets - 1) /\ dvfs = "yes"
    BY <1>1, <1>5, <2>2 DEF After, Phases, Late
  <2>3. QED
    BY <1>5, <2>1, <2>2
<1>10. /\ machine.nsockets \in Nat /\ Sockets = 0 .. machine.nsockets - 1
       /\ \A s \in Sockets : s < n + 1 => s < n \/ s = n
       /\ ~(n < machine.nsockets - 1) => \A s \in Sockets : s < n \/ s = n
  <2>1. machine.nsockets \in Nat /\ Sockets = 0 .. machine.nsockets - 1
    BY MachineFacts DEF CpuInv, Sockets
  <2>2. QED
    BY <1>1, <2>1
<1>11. \A c : pc = c /\ c \in {"membench", "stream"} /\ dvfs = "yes" =>
         /\ \A s \in Sockets : s < n \/ s = n => MemFile(c, s) \in files'
  BY <1>1, <1>7 DEF MemOK
<1>12. (pc' = "membench" /\ dvfs = "yes") => \A s \in Sockets : s < n' => MemFile("membench", s) \in files'
  <2>1. CASE pc = "mt" /\ n' = 0
    BY <1>10, <2>1
  <2>2. CASE pc = "membench" /\ n' = n + 1
    BY <1>10, <1>11, <2>2
  <2>3. QED
    BY <1>9, <2>1, <2>2
<1>13. (pc' = "stream" /\ dvfs = "yes") => \A s \in Sockets : s < n' => MemFile("stream", s) \in files'
  <2>1. CASE pc = "membench" /\ n' = 0
    BY <1>10, <2>1
  <2>2. CASE pc = "stream" /\ n' = n + 1
    BY <1>10, <1>11, <2>2
  <2>3. QED
    BY <1>9, <2>1, <2>2
<1>14. (pc' \in {"stream", "modprobe"} \cup Late \/ dvfs = "no") =>
         \A s \in Sockets : MemFile("membench", s) \in files'
  <2>1. CASE dvfs = "no" \/ pc = "stream"
    BY <1>1, <2>1 DEF MemOK
  <2>2. CASE pc = "membench" /\ dvfs = "yes" /\ ~(n < machine.nsockets - 1)
    BY <1>10, <1>11, <2>2
  <2>3. QED
    BY <1>5, <1>9, <2>1, <2>2
<1>15. (pc' \in {"modprobe"} \cup Late \/ dvfs = "no") =>
         \A s \in Sockets : MemFile("stream", s) \in files'
  <2>1. CASE dvfs = "no"
    BY <1>1, <2>1 DEF MemOK
  <2>2. CASE pc = "stream" /\ dvfs = "yes" /\ ~(n < machine.nsockets - 1)
    BY <1>10, <1>11, <2>2
  <2>3. QED
    BY <1>5, <1>9, <2>1, <2>2
<1>16. (pc' \in {"membench", "stream"} /\ dvfs = "yes") => bin' = "mt"
  BY <1>1, <1>9 DEF Built, MemOK
<1>17. QED
  BY <1>1, <1>2, <1>4, <1>8, <1>12, <1>13, <1>14, <1>15, <1>16 DEF MemOK

LEMMA MemStep ==
  ASSUME CpuInv, CpuInv', MemOK, [Next]_vars
  PROVE  MemOK'
<1>1. CASE Bench
  BY <1>1, BenchMem
<1>2. CASE SaveGovernor
  BY <1>2, MemNext DEF SaveGovernor, cron
<1>3. CASE TurnOff \/ ChangeBack
  <2>1. UNCHANGED <<found, machine, files, dvfs>> /\ pc \in Loops
    BY <1>3 DEF TurnOff, ChangeBack, SetMsr, SetGovernor, shell, cron, Loops
  <2>2. dvfs = "no"
    BY <2>1 DEF CpuInv, CpuOK
  <2>3. QED
    BY <2>1, <2>2, MemNext
<1>4. CASE SelectDisk \/ DiskInfo \/ StartUpload \/ NextCollection \/ \E p \in todo : Put(p)
  <2>1. UNCHANGED <<found, machine, files, dvfs>> /\ pc \in Late /\ pc' \in Late \cup {"aborted"}
    BY <1>4 DEF SelectDisk, DiskInfo, StartUpload, NextCollection, Put, shell, cron, Late
  <2>2. QED
    BY <2>1, MemNext DEF Late
<1>5. CASE RunFio
  <2>1. /\ UNCHANGED <<found, machine, dvfs, pc>> /\ pc \in Late
        /\ files' = files \cup Fio(testdevs[n + 1])
    BY <1>5 DEF RunFio, cron, Late
  <2>2. \A f \in Fio(testdevs[n + 1]) : f.phase = "fio"
    BY DEF Fio
  <2>3. QED
    BY <2>1, <2>2, MemNext DEF Late
<1>6. CASE Fail
  BY <1>6, MemNext DEF Fail, shell, cron, Late
<1>7. CASE Cron
  BY <1>7 DEF Cron, Fresh, MemOK, Late
<1>8. CASE UNCHANGED vars
  <2>1. Threads' = Threads /\ Sockets' = Sockets
    BY <1>8, SameHost DEF vars, cron
  <2>2. Seen' = Seen
    BY <1>8, <2>1 DEF Seen, Setting, AsBefore, On, vars, cron
  <2>3. \A c, s : MemFile(c, s)' = MemFile(c, s)
    BY <2>2 DEF MemFile
  <2>4. QED
    BY <1>8, <2>1, <2>3 DEF MemOK, vars, shell
<1>9. QED
  BY <1>1, <1>2, <1>3, <1>4, <1>5, <1>6, <1>7, <1>8 DEF Next, Script

-----------------------------------------------------------------------------
\* The part of the script before the disks are tested.
Early == Phases \cup {"modprobe", "disks"} \cup Loops

\* A step that tests no device.
LEMMA FioNext ==
  ASSUME FioOK, UNCHANGED <<disks, testdevs, machine>>, files \subseteq files',
         \A f \in files' : f.phase = "fio" => f \in files,
         pc' \in Early => pc \in Early,
         pc' = "fio" => Len(disks) = n',
         pc' \in {"put", "done"} => Len(disks) = Len(testdevs)
  PROVE  FioOK'
<1>1. disks' \in Seq(Devices') /\ Len(disks') <= Len(testdevs')
  BY DEF FioOK, Devices
<1>2. pc' \in Phases \cup {"modprobe", "disks"} \cup Loops => disks' = <<>>
  BY DEF FioOK, Early
<1>3. \A f \in files' : f.phase = "fio" => \E d \in ToSet(disks) : f \in Fio(d)
  BY DEF FioOK
<1>4. \A d \in ToSet(disks) : Fio(d) \subseteq files'
  BY DEF FioOK
<1>5. \A i \in 1 .. Len(disks') : disks'[i] = testdevs'[i]
  BY DEF FioOK
<1>6. QED
  BY <1>1, <1>2, <1>3, <1>4, <1>5 DEF FioOK

LEMMA RunFioFio ==
  ASSUME HostOK, DisksOK, FioOK, RunFio
  PROVE  FioOK'
<1> DEFINE d == testdevs[n + 1]
<1>1. /\ UNCHANGED <<pc, testdevs, machine>> /\ pc = "fio" /\ n < Len(testdevs)
      /\ n' = n + 1 /\ disks' = Append(disks, d) /\ files' = files \cup Fio(d)
  BY DEF RunFio, cron
<1>2. /\ n \in Nat /\ Len(testdevs) \in Nat
      /\ n + 1 \in 1 .. Len(testdevs) /\ testdevs \in Seq(Spare)
  BY <1>1 DEF HostOK, DisksOK
<1>3. d \in Devices
  BY <1>2 DEF Spare, Devices
<1> HIDE DEF d
<1>4. disks \in Seq(Devices) /\ Len(disks) = n /\ Devices' = Devices
  BY <1>1 DEF FioOK, Devices
<1>5. disks' \in Seq(Devices) /\ Len(disks') = n + 1
  BY <1>1, <1>3, <1>4
<1>6. /\ \A i \in 1 .. n : disks'[i] = disks[i]
      /\ disks'[n + 1] = d
  BY <1>1, <1>3, <1>4
<1>7. \A i \in 1 .. Len(disks') : disks'[i] = testdevs[i]
  BY <1>2, <1>4, <1>5, <1>6 DEF FioOK, d
<1>8. ToSet(disks') = ToSet(disks) \cup {d}
  <2>1. DOMAIN disks' = 1 .. n + 1 /\ DOMAIN disks = 1 .. n
    BY <1>4, <1>5
  <2>2. \A i \in DOMAIN disks' : i \in DOMAIN disks \/ i = n + 1
    BY <1>2, <2>1
  <2>3. n + 1 \in DOMAIN disks' /\ DOMAIN disks \subseteq DOMAIN disks'
    BY <1>2, <2>1
  <2>4. \A x : x \in ToSet(disks') <=> x \in ToSet(disks) \cup {d}
    BY <1>6, <2>1, <2>2, <2>3 DEF ToSet
  <2>5. QED
    BY <2>4
<1>9. \A f \in files' : f.phase = "fio" => \E e \in ToSet(disks') : f \in Fio(e)
  BY <1>1, <1>8 DEF FioOK
<1>10. \A e \in ToSet(disks') : Fio(e) \subseteq files'
  BY <1>1, <1>8 DEF FioOK
<1>11. Len(disks') <= Len(testdevs)
  BY <1>1, <1>2, <1>5
<1>12. pc' \notin {"put", "done"} /\ pc' \notin Phases \cup {"modprobe", "disks"} \cup Loops
  BY <1>1 DEF Phases, Loops
<1>13. QED
  BY <1>1, <1>4, <1>5, <1>7, <1>9, <1>10, <1>11, <1>12 DEF FioOK

LEMMA FioStep ==
  ASSUME CpuInv, CpuInv', DisksOK, DisksOK', MemOK, FioOK, [Next]_vars
  PROVE  FioOK'
<1>1. CASE Bench
  <2>1. UNCHANGED <<disks, testdevs, machine>> /\ files' = files \cup Measured /\ pc \in Phases
    BY <1>1 DEF Bench, cron
  <2>2. \A f \in Measured : f.phase # "fio"
    BY <2>1 DEF Measured, Result, Phases
  <2>3. pc' \in Early /\ pc \in Early
    <3>1. pc' = pc \/ pc' = After(pc)
      BY <1>1 DEF Bench
    <3>2. QED
      BY <2>1, <3>1, AfterPhase DEF CpuInv, Early, Loops
  <2>4. pc' # "fio" /\ pc' \notin {"put", "done"}
    BY <2>3 DEF Early, Phases, Loops
  <2>5. QED
    BY <2>1, <2>2, <2>3, <2>4, FioNext
<1>2. CASE SaveGovernor \/ TurnOff \/ ChangeBack
  <2>1. UNCHANGED <<disks, testdevs, machine, files>>
    BY <1>2 DEF SaveGovernor, TurnOff, ChangeBack, SetMsr, SetGovernor, cron, shell
  <2>2. pc \in Early
    BY <1>2 DEF SaveGovernor, TurnOff, ChangeBack, SetMsr, SetGovernor, Early, Loops
  <2>3. pc' # "fio" /\ pc' \notin {"put", "done"}
    BY <1>2 DEF SaveGovernor, TurnOff, ChangeBack, SetMsr, SetGovernor
  <2>4. QED
    BY <2>1, <2>2, <2>3, FioNext
<1>3. CASE SelectDisk
  <2>1. UNCHANGED <<disks, machine, files>> /\ pc = "disks" /\ pc' \in {"disks", "aborted"}
    BY <1>3 DEF SelectDisk, cron, shell
  <2>2. disks = <<>> /\ Len(disks) = 0
    BY <2>1 DEF FioOK
  <2>3. Len(testdevs') \in Nat /\ disks' \in Seq(Devices')
    BY <2>1, <2>2 DEF DisksOK
  <2>4. ToSet(disks') = ToSet(disks) /\ \A i : i \notin 1 .. Len(disks')
    BY <2>1, <2>2
  <2>5. QED
    BY <2>1, <2>2, <2>3, <2>4 DEF FioOK
<1>4. CASE DiskInfo
  <2>1. UNCHANGED <<disks, testdevs, machine, files>> /\ pc = "disks" /\ pc' = "fio" /\ n' = 0
    BY <1>4 DEF DiskInfo, cron, shell
  <2>2. Len(disks) = 0
    BY <2>1 DEF FioOK
  <2>3. QED
    BY <2>1, <2>2, FioNext DEF Early
<1>5. CASE RunFio
  BY <1>5, RunFioFio DEF CpuInv
<1>6. CASE StartUpload
  <2>1. /\ UNCHANGED <<disks, testdevs, machine, files>> /\ pc = "fio" /\ pc' = "put"
        /\ n = Len(testdevs)
    BY <1>6 DEF StartUpload, cron, shell
  <2>2. Len(disks) = Len(testdevs)
    BY <2>1 DEF FioOK
  <2>3. QED
    BY <2>1, <2>2, FioNext DEF Early, Phases, Loops
<1>7. CASE NextCollection \/ \E p \in todo : Put(p)
  <2>1. /\ UNCHANGED <<disks, testdevs, machine, files>> /\ pc = "put" /\ pc' \in {"put", "done"}
    BY <1>7 DEF NextCollection, Put, cron, shell
  <2>2. QED
    BY <2>1, FioNext DEF Early, Phases, Loops, FioOK
<1>8. CASE Fail
  BY <1>8, FioNext DEF Fail, shell, cron, Early, Phases, Loops
<1>9. CASE Cron
  <2>1. disks' = <<>> /\ testdevs' = <<>> /\ files' = {} /\ pc' = "st"
    BY <1>9 DEF Cron, Fresh
  <2>2. ToSet(disks') = {} /\ disks' \in Seq(Devices') /\ Len(disks') = 0 /\ Len(testdevs') = 0
    BY <2>1 DEF ToSet
  <2>3. QED
    BY <2>1, <2>2 DEF FioOK
<1>10. CASE UNCHANGED vars
  BY <1>10, FioNext DEF FioOK, vars, shell, cron, Early
<1>11. QED
  BY <1>1, <1>2, <1>3, <1>4, <1>5, <1>6, <1>7, <1>8, <1>9, <1>10 DEF Next, Script

-----------------------------------------------------------------------------
\* The collections, each at its own place.
LEMMA OrderFacts ==
  /\ Len(Order) = 5
  /\ \A i, j \in 1 .. 5 : Order[i] = Order[j] => i = j
  /\ \A c \in {"st", "mt", "membench", "stream", "fio"} : \E j \in 1 .. 5 : Order[j] = c
  /\ \A j \in 1 .. 5 : Order[j] # "info"
<1>1. /\ Len(Order) = 5 /\ Order[1] = "st" /\ Order[2] = "mt" /\ Order[3] = "membench"
      /\ Order[4] = "stream" /\ Order[5] = "fio"
  BY DEF Order
<1>2. \A i \in 1 .. 5 : i = 1 \/ i = 2 \/ i = 3 \/ i = 4 \/ i = 5
  OBVIOUS
<1>3. \A i, j \in 1 .. 5 : Order[i] = Order[j] => i = j
  BY <1>1, <1>2
<1>4. QED
  BY <1>1, <1>2, <1>3

\* A point says which run and which collection it is of.
LEMMA PointFacts ==
  ASSUME NEW c, NEW p \in PointsOf(c)
  PROVE  p.coll = c /\ p.run = runs
<1>1. \A tag, f : Point(c, tag, f).coll = c /\ Point(c, tag, f).run = runs
  BY DEF Point
<1>2. CASE c \in {"st", "mt"}
  <2>1. p \in NpbPoints(c)
    BY <1>2 DEF PointsOf
  <2>2. QED
    BY <1>1, <2>1 DEF NpbPoints
<1>3. CASE c = "fio"
  <2>1. p \in FioPoints
    BY <1>3 DEF PointsOf
  <2>2. QED
    BY <1>1, <1>3, <2>1 DEF FioPoints
<1>4. CASE c \notin {"st", "mt", "fio"}
  <2>1. p \in MemPoints(c)
    BY <1>4 DEF PointsOf
  <2>2. QED
    BY <1>1, <2>1 DEF MemPoints
<1>5. QED
  BY <1>2, <1>3, <1>4

\* With up to ten sockets an NPB file is only ever read for its own.
LEMMA PointsTrue ==
  ASSUME FewSockets, HostOK, MemOK, NEW c
  PROVE  SocketsTrue(PointsOf(c))
<1> SUFFICES ASSUME NEW p \in PointsOf(c), p.coll \in {"st", "mt"}
             PROVE  p.tag = p.file.socket
  BY DEF SocketsTrue
<1>1. c \in {"st", "mt"}
  BY PointFacts
<1>2. p \in NpbPoints(c)
  BY <1>1 DEF PointsOf
<1>3. PICK x \in Sockets \X {f \in files : f.phase = c} :
        OfSocket(x[1], x[2]) /\ p = Point(c, x[1], x[2])
  BY <1>2 DEF NpbPoints
<1>4. x[1] \in Sockets /\ x[2] \in files /\ x[2].phase = c
  BY <1>3
<1>5. x[2].socket \in Sockets
  BY <1>1, <1>4 DEF MemOK, Phases
<1>6. x[1] = x[2].socket
  BY <1>3, <1>4, <1>5, SocketInName DEF OfSocket
<1>7. QED
  BY <1>3, <1>6 DEF Point

\* The points do not change while they are being written.
LEMMA PointsKept ==
  ASSUME UNCHANGED <<files, disks, runs, machine>>
  PROVE  \A c : PointsOf(c)' = PointsOf(c)
BY DEF PointsOf, NpbPoints, FioPoints, MemPoints, Point, OfSocket, InName, Sockets, MemLabels

\* Steps that neither write to the database nor end the upload.
LEMMA DbNext ==
  ASSUME DbOK, UNCHANGED <<db, runs>>, pc' \notin {"put", "done"},
         pc' # "aborted" => pc \notin {"put", "done", "aborted"}
  PROVE  DbOK'
BY DEF DbOK, SocketsTrue

LEMMA StartUploadDb ==
  ASSUME FewSockets, HostOK, MemOK, DbOK, StartUpload
  PROVE  DbOK'
<1>1. /\ UNCHANGED <<files, disks, runs, machine>> /\ pc = "fio" /\ pc' = "put" /\ n' = 1
      /\ todo' = PointsOf("st")
      /\ db' = IF Unknown THEN db \cup {Point("info", "none", "none")} ELSE db
  BY DEF StartUpload, cron, shell
<1>2. \A c : PointsOf(c)' = PointsOf(c)
  BY <1>1, PointsKept
<1>3. \A p \in db : p.run \in Nat /\ p.run < runs
  BY <1>1 DEF DbOK
<1>4. Order[1] = "st"
  BY DEF Order
<1>5. Point("info", "none", "none").coll = "info" /\ Point("info", "none", "none").run = runs
  BY DEF Point
<1>6. \A j \in 1 .. 5 : Of(Order[j])' = {}
  <2>1. \A p \in db' : p.run = runs => p.coll = "info"
    BY <1>1, <1>3, <1>5 DEF HostOK
  <2>2. QED
    BY <1>1, <2>1, OrderFacts DEF Of
<1>7. \E p \in db' : p.coll = "info"
  BY <1>1, <1>5 DEF Unknown
<1>8. \A p \in db' : p.run \in Nat /\ p.run <= runs
  BY <1>1, <1>3, <1>5 DEF HostOK
<1>9. SocketsTrue(db')
  BY <1>1, <1>5 DEF SocketsTrue, DbOK
<1>10. PointsOf(Order[1])' \ todo' = {}
  BY <1>1, <1>2, <1>4
<1>11. \A j \in 1 .. 5 : ~(j < 1)
  OBVIOUS
<1>12. 1 \in 1 .. 5 /\ todo' \subseteq PointsOf(Order[1])'
  BY <1>1, <1>2, <1>4
<1>13. QED
  BY <1>1, <1>6, <1>7, <1>8, <1>9, <1>10, <1>11, <1>12 DEF DbOK

LEMMA PutDb ==
  ASSUME FewSockets, HostOK, MemOK, DbOK, NEW p \in todo, Put(p)
  PROVE  DbOK'
<1>1. /\ UNCHANGED <<files, disks, runs, machine, pc, n>> /\ pc = "put"
      /\ db' = db \cup {p} /\ todo' = todo \ {p}
  BY DEF Put, cron, shell
<1>2. \A c : PointsOf(c)' = PointsOf(c)
  BY <1>1, PointsKept
<1>3. /\ n \in 1 .. 5 /\ todo \subseteq PointsOf(Order[n])
      /\ \A j \in 1 .. 5 : Of(Order[j]) = IF j < n THEN PointsOf(Order[j])
                                     ELSE IF j = n THEN PointsOf(Order[n]) \ todo ELSE {}
  BY <1>1 DEF DbOK
<1>4. p \in PointsOf(Order[n]) /\ p.coll = Order[n] /\ p.run = runs
  BY <1>3, PointFacts
<1>5. \A j \in 1 .. 5 : Of(Order[j])' = IF j = n THEN Of(Order[j]) \cup {p} ELSE Of(Order[j])
  <2> SUFFICES ASSUME NEW j \in 1 .. 5
               PROVE  Of(Order[j])' = IF j = n THEN Of(Order[j]) \cup {p} ELSE Of(Order[j])
    OBVIOUS
  <2>1. p.coll = Order[j] <=> j = n
    BY <1>3, <1>4, OrderFacts
  <2>2. QED
    BY <1>1, <1>4, <2>1 DEF Of
<1>6. \A j \in 1 .. 5 : Of(Order[j])' = IF j < n THEN PointsOf(Order[j])'
                                   ELSE IF j = n THEN PointsOf(Order[n])' \ todo' ELSE {}
  <2> SUFFICES ASSUME NEW j \in 1 .. 5
               PROVE  Of(Order[j])' = IF j < n THEN PointsOf(Order[j])'
                                 ELSE IF j = n THEN PointsOf(Order[n])' \ todo' ELSE {}
    OBVIOUS
  <2>1. CASE j = n
    <3>1. ~(j < n) /\ Of(Order[j])' = (PointsOf(Order[n]) \ todo) \cup {p}
      BY <1>3, <1>5, <2>1
    <3>2. (PointsOf(Order[n]) \ todo) \cup {p} = PointsOf(Order[n]) \ (todo \ {p})
      BY <1>4
    <3>3. QED
      BY <1>1, <1>2, <2>1, <3>1, <3>2
  <2>2. CASE j # n
    BY <1>2, <1>3, <1>5, <2>2
  <2>3. QED
    BY <2>1, <2>2
<1>7. SocketsTrue(db')
  <2>1. SocketsTrue(PointsOf(Order[n]))
    BY PointsTrue
  <2>2. QED
    BY <1>1, <1>4, <2>1 DEF SocketsTrue, DbOK
<1>8. \A q \in db' : q.run \in Nat /\ q.run <= runs
  BY <1>1, <1>4 DEF DbOK, HostOK
<1>9. todo' \subseteq PointsOf(Order[n])'
  BY <1>1, <1>2, <1>3
<1>10. \E q \in db' : q.coll = "info"
  BY <1>1 DEF DbOK
<1>11. QED
  BY <1>1, <1>3, <1>6, <1>7, <1>8, <1>9, <1>10 DEF DbOK

LEMMA NextCollectionDb ==
  ASSUME DbOK, NextCollection
  PROVE  DbOK'
<1>1. /\ UNCHANGED <<files, disks, runs, machine, db>> /\ pc = "put" /\ todo = {}
      /\ n' = n + 1
  BY DEF NextCollection, cron, shell
<1>2. \A c : PointsOf(c)' = PointsOf(c)
  BY <1>1, PointsKept
<1>3. /\ n \in 1 .. 5
      /\ \A j \in 1 .. 5 : Of(Order[j]) = IF j < n THEN PointsOf(Order[j])
                                     ELSE IF j = n THEN PointsOf(Order[n]) \ todo ELSE {}
  BY <1>1 DEF DbOK
<1>4. \A j \in 1 .. 5 : Of(Order[j])' = IF j < n + 1 THEN PointsOf(Order[j]) ELSE {}
  <2> SUFFICES ASSUME NEW j \in 1 .. 5
               PROVE  Of(Order[j])' = IF j < n + 1 THEN PointsOf(Order[j]) ELSE {}
    OBVIOUS
  <2>1. Of(Order[j])' = Of(Order[j])
    BY <1>1 DEF Of
  <2>2. j < n + 1 <=> j < n \/ j = n
    BY <1>3
  <2>3. QED
    BY <1>1, <1>3, <2>1, <2>2
<1>5. /\ SocketsTrue(db') /\ \A q \in db' : q.run \in Nat /\ q.run <= runs
      /\ \E q \in db' : q.coll = "info"
  BY <1>1 DEF DbOK
<1>6. CASE n < Len(Order)
  <2>1. PICK k \in 1 .. 5 : k = n + 1
    BY <1>3, <1>6, OrderFacts
  <2>2. pc' = "put" /\ todo' = PointsOf(Order[k]) /\ n' = k
    BY <1>1, <1>6, <2>1 DEF NextCollection
  <2>3. \A j \in 1 .. 5 : Of(Order[j])' = IF j < k THEN PointsOf(Order[j])'
                                     ELSE IF j = k THEN PointsOf(Order[k])' \ todo' ELSE {}
    BY <1>2, <1>4, <2>1, <2>2
  <2>4. todo' \subseteq PointsOf(Order[k])'
    BY <1>2, <2>2
  <2>5. QED
    BY <1>1, <1>5, <2>2, <2>3, <2>4 DEF DbOK
<1>7. CASE ~(n < Len(Order))
  <2>1. pc' = "done" /\ n = 5
    BY <1>1, <1>3, <1>7, OrderFacts DEF NextCollection
  <2>2. \A j \in 1 .. 5 : Of(Order[j])' = PointsOf(Order[j])'
    BY <1>2, <1>4, <2>1
  <2>3. QED
    BY <1>1, <1>5, <2>1, <2>2 DEF DbOK
<1>8. QED
  BY <1>6, <1>7

LEMMA DbStep ==
  ASSUME FewSockets, CpuInv, MemOK, DbOK, [Next]_vars
  PROVE  DbOK'
<1>1. CASE Bench
  <2>1. pc' = pc \/ pc' = After(pc)
    BY <1>1 DEF Bench
  <2>2. pc \in Phases /\ UNCHANGED <<db, runs>>
    BY <1>1 DEF Bench, cron
  <2>3. pc \notin {"put", "done", "aborted"} /\ pc' \notin {"put", "done"}
    BY <2>1, <2>2, AfterPhase DEF CpuInv, Phases
  <2>4. QED
    BY <2>2, <2>3, DbNext
<1>2. CASE SaveGovernor \/ TurnOff \/ ChangeBack
  <2>1. UNCHANGED <<db, runs>> /\ pc' \notin {"put", "done"} /\ pc \notin {"put", "done", "aborted"}
    BY <1>2 DEF SaveGovernor, TurnOff, ChangeBack, SetMsr, SetGovernor, cron
  <2>2. QED
    BY <2>1, DbNext
<1>3. CASE SelectDisk \/ DiskInfo \/ RunFio
  <2>1. UNCHANGED <<db, runs>> /\ pc' \notin {"put", "done"} /\ pc \notin {"put", "done", "aborted"}
    BY <1>3 DEF SelectDisk, DiskInfo, RunFio, cron
  <2>2. QED
    BY <2>1, DbNext
<1>4. CASE StartUpload
  BY <1>4, StartUploadDb DEF CpuInv
<1>5. CASE NextCollection
  BY <1>5, NextCollectionDb
<1>6. CASE \E p \in todo : Put(p)
  BY <1>6, PutDb DEF CpuInv
<1>7. CASE Fail
  BY <1>7, DbNext DEF Fail, cron
<1>8. CASE Cron
  <2>1. db' = db /\ runs' = runs + 1 /\ pc' = "st" /\ runs \in Nat
    BY <1>8 DEF Cron, Fresh, CpuInv, HostOK
  <2>2. \A p \in db : p.run \in Nat /\ p.run <= runs' /\ p.run < runs'
    BY <2>1 DEF DbOK
  <2>3. QED
    BY <2>1, <2>2 DEF DbOK, SocketsTrue
<1>9. CASE UNCHANGED vars
  <2>1. /\ UNCHANGED <<files, disks, runs, machine, db, pc, n, todo>>
    BY <1>9 DEF vars, cron, shell
  <2>2. \A c : PointsOf(c)' = PointsOf(c) /\ Of(c)' = Of(c)
    BY <2>1, PointsKept DEF Of
  <2>3. QED
    BY <2>1, <2>2 DEF DbOK, SocketsTrue
<1>10. QED
  BY <1>1, <1>2, <1>3, <1>4, <1>5, <1>6, <1>7, <1>8, <1>9 DEF Next, Script

LEMMA InitSaved == Init => SavedInv
<1> SUFFICES ASSUME Init PROVE SavedInv
  OBVIOUS
<1>1. MemOK
  BY DEF Init, MemOK, Late
<1>2. FioOK
  <2>1. disks \in Seq(Devices) /\ Len(disks) = 0 /\ Len(testdevs) = 0 /\ ToSet(disks) = {}
    BY DEF Init, ToSet
  <2>2. QED
    BY <2>1 DEF Init, FioOK
<1>3. DbOK
  BY DEF Init, DbOK, SocketsTrue
<1>4. QED
  BY <1>1, <1>2, <1>3 DEF SavedInv

LEMMA SavedInvariance ==
  ASSUME FewSockets
  PROVE  Spec => []SavedInv
<1>1. CpuInv /\ CpuInv' /\ DisksOK /\ DisksOK' /\ SavedInv /\ [Next]_vars => SavedInv'
  BY MemStep, FioStep, DbStep DEF SavedInv
<1>2. QED
  BY InitSaved, <1>1, CpuInvariance, DisksInvariance, PTL DEF Spec

-----------------------------------------------------------------------------
\* Counting what a completed run has saved.
LEMMA OfPoints ==
  ASSUME DbOK, pc = "done", NEW c \in {"st", "mt", "membench", "stream", "fio"}
  PROVE  Of(c) = PointsOf(c)
<1>1. PICK j \in 1 .. 5 : Order[j] = c
  BY OrderFacts
<1>2. QED
  BY <1>1 DEF DbOK

\* One membench and one stream file of each socket.
LEMMA MemCount ==
  ASSUME CpuInv, SavedInv, pc = "done", NEW c \in {"membench", "stream"}
  PROVE  Cardinality(Of(c)) = machine.nsockets
<1> DEFINE at == [s \in Sockets |-> Point(c, s, MemFile(c, s))]
           F == {g \in files : g.phase = c /\ g.dvfs \in MemLabels}
<1>1. Of(c) = {Point(c, f.socket, f) : f \in F}
  BY OfPoints DEF SavedInv, PointsOf, MemPoints
<1>2. \A s \in Sockets : MemFile(c, s) \in F /\ MemFile(c, s).socket = s
  <2>1. \A s \in Sockets : MemFile(c, s) \in files
    BY DEF SavedInv, MemOK, Late
  <2>2. \A s : MemFile(c, s).phase = c /\ MemFile(c, s).dvfs = "yes" /\ MemFile(c, s).socket = s
    BY DEF MemFile
  <2>3. QED
    BY <2>1, <2>2 DEF MemLabels
<1>3. \A f \in F : f.socket \in Sockets /\ f = MemFile(c, f.socket)
  <2>1. \A f \in F : f \in files /\ f.phase = c /\ f.dvfs = "yes"
    BY DEF MemLabels
  <2>2. c \in Phases
    BY DEF Phases
  <2>3. QED
    BY <2>1, <2>2 DEF SavedInv, MemOK
<1> HIDE DEF F
<1>4. \A s \in Sockets : at[s] \in Of(c)
  BY <1>1, <1>2
<1>5. at \in [Sockets -> Of(c)]
  BY <1>4
<1>6. \A s, t \in Sockets : at[s] = at[t] => s = t
  BY DEF Point
<1>7. \A p \in Of(c) : \E s \in Sockets : at[s] = p
  BY <1>1, <1>3
<1> HIDE DEF at
<1>8. at \in Bijection(Sockets, Of(c))
  BY <1>5, <1>6, <1>7 DEF Bijection, Injection, Surjection, IsInjective
<1>9. ExistsBijection(Sockets, Of(c))
  BY <1>8 DEF ExistsBijection
<1>10. IsFiniteSet(Sockets) /\ Cardinality(Sockets) = machine.nsockets
  <2>1. machine.nsockets \in Nat \ {0}
    BY MachineFacts DEF CpuInv
  <2>2. /\ 0 \in Int /\ machine.nsockets - 1 \in Int /\ ~(0 > machine.nsockets - 1)
        /\ machine.nsockets - 1 - 0 + 1 = machine.nsockets
    BY <2>1
  <2>3. QED
    BY <2>2, FS_Interval DEF Sockets
<1>11. QED
  BY <1>9, <1>10, FS_Bijection

\* The eight kinds of fio results.
Kinds == ToSet(TestOrder) \X {1, 4096}

LEMMA KindsCount == IsFiniteSet(Kinds) /\ Cardinality(Kinds) = 8
<1>1. ToSet(TestOrder) = (({"read_seq"} \cup {"read_rand"}) \cup {"write_seq"}) \cup {"write_rand"}
  <2>1. /\ DOMAIN TestOrder = {1, 2, 3, 4} /\ TestOrder[1] = "read_seq" /\ TestOrder[2] = "read_rand"
        /\ TestOrder[3] = "write_seq" /\ TestOrder[4] = "write_rand"
    BY DEF TestOrder
  <2>2. QED
    BY <2>1 DEF ToSet
<1>2. IsFiniteSet({"read_seq"}) /\ Cardinality({"read_seq"}) = 1
  BY FS_Singleton
<1>3. /\ IsFiniteSet({"read_seq"} \cup {"read_rand"})
      /\ Cardinality({"read_seq"} \cup {"read_rand"}) = 2
  BY <1>2, FS_AddElement
<1>4. /\ IsFiniteSet(({"read_seq"} \cup {"read_rand"}) \cup {"write_seq"})
      /\ Cardinality(({"read_seq"} \cup {"read_rand"}) \cup {"write_seq"}) = 3
  BY <1>3, FS_AddElement
<1>5. IsFiniteSet(ToSet(TestOrder)) /\ Cardinality(ToSet(TestOrder)) = 4
  BY <1>1, <1>4, FS_AddElement
<1>6. IsFiniteSet({1, 4096}) /\ Cardinality({1, 4096}) = 2
  <2>1. {1, 4096} = {1} \cup {4096}
    OBVIOUS
  <2>2. IsFiniteSet({1}) /\ Cardinality({1}) = 1
    BY FS_Singleton
  <2>3. QED
    BY <2>1, <2>2, FS_AddElement
<1>7. QED
  BY <1>5, <1>6, FS_Product DEF Kinds

\* Eight results of each device.
LEMMA FioCount ==
  ASSUME CpuInv, DisksOK, SavedInv, pc = "done"
  PROVE  Cardinality(Of("fio")) = 8 * Cardinality(ToSet(testdevs))
<1> DEFINE D == ToSet(testdevs)
           file(x) == [phase |-> "fio", name |-> x[2][1], run |-> x[2][2], socket |-> x[1],
                       dvfs |-> "none", built |-> "none", really |-> "none"]
           at == [x \in D \X Kinds |-> Point("fio", x[1], file(x))]
<1>1. D = ToSet(disks)
  <2>1. /\ disks \in Seq(Devices) /\ Len(disks) = Len(testdevs) /\ testdevs \in Seq(Spare)
        /\ \A i \in 1 .. Len(disks) : disks[i] = testdevs[i]
    BY DEF SavedInv, FioOK, DisksOK
  <2>2. DOMAIN disks = 1 .. Len(disks) /\ DOMAIN testdevs = 1 .. Len(disks)
    BY <2>1
  <2>3. QED
    BY <2>1, <2>2 DEF ToSet
<1>2. IsFiniteSet(D) /\ Cardinality(D) \in Nat
  <2> DEFINE k == Len(testdevs)
             h == [i \in 1 .. k |-> testdevs[i]]
  <2>1. k \in Nat /\ DOMAIN testdevs = 1 .. k
    BY DEF DisksOK
  <2>2. h \in Surjection(1 .. k, D)
    BY <2>1 DEF ToSet, Surjection
  <2>3. IsFiniteSet(1 .. k)
    BY <2>1, FS_Interval
  <2> HIDE DEF h, D
  <2>4. IsFiniteSet(D)
    BY <2>2, <2>3, FS_Surjection
  <2>5. QED
    BY <2>4, FS_CardinalityType
<1>3. Of("fio") = FioPoints
  BY OfPoints DEF SavedInv, PointsOf
<1>4. \A x \in D \X Kinds : file(x) \in Fio(x[1]) /\ x[1] \in D
  BY DEF Fio, Kinds
<1>5. \A d, f : f \in Fio(d) => f.phase = "fio" /\ f.socket = d
  BY DEF Fio
<1>6. \A d : d \in D <=> \E i \in DOMAIN disks : disks[i] = d
  BY <1>1 DEF ToSet
<1>7. \A p : p \in FioPoints <=> \E d \in D : \E f \in Fio(d) : p = Point("fio", d, f)
  <2>1. ASSUME NEW p \in FioPoints PROVE \E d \in D : \E f \in Fio(d) : p = Point("fio", d, f)
    <3>1. PICK f \in files : f.phase = "fio" /\ p = Point("fio", f.socket, f)
      BY DEF FioPoints
    <3>2. PICK d \in ToSet(disks) : f \in Fio(d)
      BY <3>1 DEF SavedInv, FioOK
    <3>3. QED
      BY <1>1, <1>5, <3>1, <3>2
  <2>2. ASSUME NEW d \in D, NEW f \in Fio(d) PROVE Point("fio", d, f) \in FioPoints
    <3>1. f \in files /\ f.phase = "fio" /\ f.socket = d
      BY <1>1, <1>5 DEF SavedInv, FioOK
    <3>2. QED
      BY <1>6, <3>1 DEF FioPoints
  <2>3. QED
    BY <2>1, <2>2
<1>8. \A d \in D : \A f \in Fio(d) : \E x \in D \X Kinds : x[1] = d /\ file(x) = f
  <2> SUFFICES ASSUME NEW d \in D, NEW f \in Fio(d)
               PROVE  \E x \in D \X Kinds : x[1] = d /\ file(x) = f
    OBVIOUS
  <2>1. PICK t \in ToSet(TestOrder), depth \in {1, 4096} :
          f = [phase |-> "fio", name |-> t, run |-> depth, socket |-> d, dvfs |-> "none",
               built |-> "none", really |-> "none"]
    BY DEF Fio
  <2>2. <<d, <<t, depth>>>> \in D \X Kinds /\ file(<<d, <<t, depth>>>>) = f
    BY <2>1 DEF Kinds
  <2>3. QED
    BY <2>2
<1>9. \A x, y \in D \X Kinds : file(x) = file(y) => x = y
  <2> SUFFICES ASSUME NEW x \in D \X Kinds, NEW y \in D \X Kinds, file(x) = file(y) PROVE x = y
    OBVIOUS
  <2>1. /\ file(x).socket = x[1] /\ file(x).name = x[2][1] /\ file(x).run = x[2][2]
        /\ file(y).socket = y[1] /\ file(y).name = y[2][1] /\ file(y).run = y[2][2]
    OBVIOUS
  <2>2. x[1] = y[1] /\ x[2][1] = y[2][1] /\ x[2][2] = y[2][2]
    BY <2>1
  <2>3. x = <<x[1], x[2]>> /\ y = <<y[1], y[2]>> /\ x[2] \in Kinds /\ y[2] \in Kinds
    OBVIOUS
  <2>4. x[2] = <<x[2][1], x[2][2]>> /\ y[2] = <<y[2][1], y[2][2]>>
    BY <2>3 DEF Kinds
  <2>5. QED
    BY <2>2, <2>3, <2>4
<1> HIDE DEF D, file
<1>10. \A x \in D \X Kinds : at[x] = Point("fio", x[1], file(x)) /\ at[x] \in Of("fio")
  BY <1>3, <1>4, <1>7
<1>11. at \in [D \X Kinds -> Of("fio")]
  BY <1>10
<1>12. \A x, y \in D \X Kinds : at[x] = at[y] => x = y
  <2>1. \A d, e, f, g : Point("fio", d, f) = Point("fio", e, g) => f = g
    BY DEF Point
  <2>2. QED
    BY <1>9, <1>10, <2>1
<1>13. \A p \in Of("fio") : \E x \in D \X Kinds : at[x] = p
  BY <1>3, <1>7, <1>8, <1>10
<1> HIDE DEF at
<1>14. at \in Bijection(D \X Kinds, Of("fio"))
  BY <1>11, <1>12, <1>13 DEF Bijection, Injection, Surjection, IsInjective
<1>15. ExistsBijection(D \X Kinds, Of("fio"))
  BY <1>14 DEF ExistsBijection
<1>16. IsFiniteSet(D \X Kinds) /\ Cardinality(D \X Kinds) = Cardinality(D) * 8
  BY <1>2, KindsCount, FS_Product
<1>17. Cardinality(Of("fio")) = Cardinality(D) * 8
  BY <1>15, <1>16, FS_Bijection
<1>18. QED
  BY <1>2, <1>17 DEF D

\* On hosts of up to ten sockets every NPB file is saved once, under its own
\* socket, and a run that completes has saved everything it measured with
\* DVFS: whatever broke off before it and however many devices there are.
THEOREM SavedCorrect ==
  ASSUME FewSockets
  PROVE  Spec => []SavedExactly
<1>1. CpuInv /\ DisksOK /\ SavedInv => SavedExactly
  <2> SUFFICES ASSUME CpuInv, DisksOK, SavedInv PROVE SavedExactly
    OBVIOUS
  <2>1. \A p \in db : p.coll \in {"st", "mt"} => p.tag = p.file.socket
    BY DEF SavedInv, DbOK, SocketsTrue
  <2>2. db # {} => \E p \in db : p.coll = "info"
    BY DEF SavedInv, DbOK
  <2>3. ASSUME pc = "done", NEW c \in {"st", "mt"}
        PROVE  {p.file : p \in Of(c)} = {f \in files : f.phase = c}
    <3>1. Of(c) = NpbPoints(c)
      BY <2>3, OfPoints DEF SavedInv, PointsOf
    <3>2. \A tag, f : Point(c, tag, f).file = f
      BY DEF Point
    <3>3. ASSUME NEW p \in NpbPoints(c) PROVE p.file \in files /\ p.file.phase = c
      <4>1. PICK x \in Sockets \X {f \in files : f.phase = c} : p = Point(c, x[1], x[2])
        BY DEF NpbPoints
      <4>2. QED
        BY <3>2, <4>1
    <3>4. ASSUME NEW f \in files, f.phase = c PROVE \E p \in NpbPoints(c) : p.file = f
      <4>1. f.socket \in Sockets
        BY <3>4 DEF SavedInv, MemOK, Phases
      <4> DEFINE x == <<f.socket, f>>
      <4>2. x \in Sockets \X {g \in files : g.phase = c} /\ OfSocket(x[1], x[2])
        BY <3>4, <4>1 DEF OfSocket, InName
      <4>3. Point(c, x[1], x[2]) \in NpbPoints(c) /\ Point(c, x[1], x[2]).file = f
        BY <3>2, <4>2 DEF NpbPoints
      <4>4. QED
        BY <4>3
    <3>5. QED
      BY <3>1, <3>3, <3>4
  <2>4. QED
    BY <2>1, <2>2, <2>3, MemCount, FioCount DEF SavedExactly
<1>2. QED
  BY <1>1, CpuInvariance, DisksInvariance, SavedInvariance, PTL
=============================================================================
