------------------------------ MODULE Baseliner ------------------------------
(***************************************************************************)
(* benchmark.sh, the program the container runs, and the orchestrator.py   *)
(* it ends with.  The container is started again and again by cron         *)
(* (README.md); it is thrown away after each run (--rm), but it is         *)
(* privileged, so what it does to the CPUs and to the disks stays.         *)
(*                                                                         *)
(* The script runs under `set -e`: a command that fails ends it where it   *)
(* is (Fail).  A result file is a record that keeps, beside the labels the *)
(* script writes into its name and columns, how it was really measured.    *)
(***************************************************************************)
EXTENDS Naturals, Sequences, FiniteSets, SequencesExt

CONSTANTS Machines,   \* the hosts the container is looked at on, see Machine
          Suite,      \* the programs `make suite` builds into bin/
          ExtraRuns,  \* how often an ft program runs in the extra test (30)
          Faults      \* the faults that may happen: a subset of {"cmd"}

\* What the script finds on a host: nsockets; the governor of each thread
\* before the first run; whether the test of line 136 holds (x86_64 and not a
\* 6142); rawnames in the order of lsblk, the partitions of each of them
\* ("Empty" or "data") and the free blocks sgdisk can make a partition of.
\* cron is a bound: how many runs are started on it.
Machine(m) ==
    /\ m.nsockets \in Nat \ {0} /\ m.nthreads \in Nat \ {0} /\ m.cron \in Nat \ {0}
    /\ m.dvfs \in BOOLEAN /\ m.governors \in [0 .. m.nthreads - 1 -> STRING]
    /\ m.disks \in Seq(STRING) /\ m.gaps \in [ToSet(m.disks) -> Nat]
    /\ m.parts \in [ToSet(m.disks) -> Seq({"Empty", "data"})]

ASSUME BaselinerAssumption ==
    /\ \A m \in Machines : Machine(m)
    /\ Faults \subseteq {"cmd"} /\ ExtraRuns \in Nat

VARIABLES msr, gov,        \* host: IA32_MISC_ENABLE and the governor of each thread
          parts, gaps,     \* host: the partition tables
          wiped,           \* host: the partitions blkdiscard and fio wrote over
          pc, n,           \* the script: its phase and its loop variable
          dvfs, oldgovernor, bin, files, testdevs, disks,
          todo,            \* orchestrator.py: what the current collection still writes
          db,              \* the InfluxDB: [run, coll, tag, file]
          runs,            \* the runs cron has started
          machine, found   \* the host, and its CPUs when this run started (ghost)

Sockets == 0 .. machine.nsockets - 1
Threads == 0 .. machine.nthreads - 1

host   == <<msr, gov>>
table  == <<parts, gaps, wiped>>
shell  == <<dvfs, oldgovernor, bin, files>>
cron   == <<runs, machine, found>>
vars   == <<host, table, pc, n, shell, testdevs, disks, todo, db, cron>>

Ended == {"done", "aborted"}

\* A new container: lines 1-22.
Fresh == /\ pc' = "st" /\ n' = 0
         /\ dvfs' = "yes" /\ oldgovernor' = "none" /\ bin' = "none"
         /\ files' = {} /\ testdevs' = <<>> /\ disks' = <<>> /\ todo' = {}

Init == /\ machine \in Machines
        /\ msr = [t \in Threads |-> "on"] /\ gov = machine.governors
        /\ found = [msr |-> msr, gov |-> gov]
        /\ parts = machine.parts /\ gaps = machine.gaps /\ wiped = {}
        /\ pc = "st" /\ n = 0
        /\ dvfs = "yes" /\ oldgovernor = "none" /\ bin = "none"
        /\ files = {} /\ testdevs = <<>> /\ disks = <<>> /\ todo = {}
        /\ db = {} /\ runs = 1

-----------------------------------------------------------------------------
\* The benchmark loops: each runs on every socket in turn, with DVFS on and
\* then, where the machine allows it, with DVFS off.

Phases == {"st", "mt", "membench", "stream", "extra"}

\* The phase after the loop of phase p.
After(p) ==
    IF dvfs = "yes"
      THEN [st |-> "mt", mt |-> "membench", membench |-> "stream",
            stream |-> IF machine.dvfs THEN "modprobe" ELSE "disks"][p]
      ELSE [stream |-> "membench", membench |-> "st", st |-> "mt",
            mt |-> "extra", extra |-> "restore_msr"][p]

\* What `make suite` leaves in bin/: each NPB loop is preceded by a build for
\* its own configuration, the extra loop uses what is there.
\* Mutant: the build before the loop is missing once bin/ is not empty.
Built_Once == IF bin = "none" THEN pc ELSE bin

Built == IF pc \in {"st", "mt"} THEN pc ELSE bin

\* DVFS is on when every thread is as it was before the first run, and off when
\* every thread has had both commands of lines 143-144; in between is neither.
On(m) == \A t \in Threads : m[t] = "on"
AsBefore(m, g) == On(m) /\ g = machine.governors
Setting(m, g) == IF AsBefore(m, g) THEN "yes"
      ELSE IF \A t \in Threads : m[t] = "off" /\ g[t] = "performance" THEN "no" ELSE "mixed"

\* The state of the CPUs a measurement is really made in.
Running == Setting(msr, gov)

Result(name, i) == [phase |-> pc, name |-> name, run |-> i, socket |-> n, dvfs |-> dvfs,
                    built |-> Built, really |-> Running]

\* The files one turn of the loop writes into the home directory.
Measured == IF pc \in {"st", "mt"} THEN {Result(f, 0) : f \in Suite}
            ELSE IF pc = "extra"
              THEN {Result(f, i) : f \in Suite \cap {"ft"}, i \in 1 .. ExtraRuns}
            ELSE {Result(pc, 0)}

Bench ==
    /\ pc \in Phases
    /\ files' = files \cup Measured
    /\ bin' = Built
    /\ IF n < machine.nsockets - 1 THEN n' = n + 1 /\ pc' = pc
                           ELSE n' = 0 /\ pc' = After(pc)
    /\ UNCHANGED <<host, table, dvfs, oldgovernor, testdevs, disks, todo, db, cron>>

-----------------------------------------------------------------------------
\* DVFS off and back: two commands for each thread.

\* Line 138-140.  cpufreq-info -p answers for CPU 0.
SaveGovernor ==
    /\ pc = "modprobe"
    /\ dvfs' = "no" /\ oldgovernor' = gov[0]
    /\ pc' = "off_msr"
    /\ UNCHANGED <<host, table, n, bin, files, testdevs, disks, todo, db, cron>>

\* The loops over the threads go on.
MoreThreads == n < machine.nthreads - 1

\* One wrmsr, then one cpufreq-set, of the loop over the threads.
SetMsr(from, to, value) ==
    /\ pc = from
    /\ msr' = [msr EXCEPT ![n] = value]
    /\ pc' = to
    /\ UNCHANGED <<gov, table, n, shell, testdevs, disks, todo, db, cron>>

SetGovernor(from, again, next, value) ==
    /\ pc = from
    /\ gov' = [gov EXCEPT ![n] = value]
    /\ IF MoreThreads THEN n' = n + 1 /\ pc' = again
                      ELSE n' = 0 /\ pc' = next
    /\ UNCHANGED <<msr, table, shell, testdevs, disks, todo, db, cron>>

TurnOff == \/ SetMsr("off_msr", "off_gov", "off")
           \/ SetGovernor("off_gov", "off_msr", "stream", "performance")

\* Mutant: the governor is left as the measurements wanted it.
Previous_Performance == "performance"

\* What line 242 sets the governor back to.
Previous == oldgovernor

ChangeBack == \/ SetMsr("restore_msr", "restore_gov", "on")
              \/ SetGovernor("restore_gov", "restore_msr", "disks", Previous)

-----------------------------------------------------------------------------
\* The disks.

\* Line 271-273: of exactly four devices only the first is used.
RawNames == IF Len(machine.disks) = 4 THEN <<machine.disks[1]>> ELSE machine.disks

\* Mutant: the last partition, whatever its label.
TestParts_Any(d) == DOMAIN parts[d]

\* Line 282: the partitions fdisk calls Empty; the last one is taken.
TestParts(d) == {i \in DOMAIN parts[d] : parts[d][i] = "Empty"}
LastOf(S) == CHOOSE i \in S : \A j \in S : j <= i

Choose(d, i) == testdevs' = Append(testdevs, <<d, i>>)

\* One turn of the loop over rawnames.  Line 279: grep -c answers 1 when it
\* counts 0, so a disk without partitions ends the script.  Line 292: sgdisk
\* fails when there is no free block left; what it creates is not Empty.
SelectDisk ==
    /\ pc = "disks" /\ n < Len(RawNames)
    /\ LET d == RawNames[n + 1] IN
         \/ /\ parts[d] = <<>> \/ (TestParts(d) = {} /\ gaps[d] = 0)
            /\ pc' = "aborted"
            /\ UNCHANGED <<n, testdevs, parts, gaps>>
         \/ /\ parts[d] # <<>> /\ TestParts(d) # {}
            /\ Choose(d, LastOf(TestParts(d)))
            /\ n' = n + 1
            /\ UNCHANGED <<pc, parts, gaps>>
         \/ /\ parts[d] # <<>> /\ TestParts(d) = {} /\ gaps[d] > 0
            /\ parts' = [parts EXCEPT ![d] = Append(@, "new")]
            /\ gaps' = [gaps EXCEPT ![d] = @ - 1]
            /\ Choose(d, Len(parts[d]) + 1)
            /\ n' = n + 1
            /\ UNCHANGED pc
    /\ UNCHANGED <<host, wiped, shell, disks, todo, db, cron>>

\* Lines 306-338 write disk_info files, which orchestrator.py does not read.
DiskInfo ==
    /\ pc = "disks" /\ n = Len(RawNames)
    /\ pc' = "fio" /\ n' = 0
    /\ UNCHANGED <<host, table, shell, testdevs, disks, todo, db, cron>>

\* The tests of one device, in the order orchestrator.py saves them in.
TestOrder == <<"read_seq", "read_rand", "write_seq", "write_rand">>
Fio(dev) == {[phase |-> "fio", name |-> t, run |-> depth, socket |-> dev, dvfs |-> "none",
              built |-> "none", really |-> "none"] : t \in ToSet(TestOrder), depth \in {1, 4096}}

\* One turn of the loop over testdevs: eight fio runs on one device.
RunFio ==
    /\ pc = "fio" /\ n < Len(testdevs)
    /\ disks' = Append(disks, testdevs[n + 1])
    /\ wiped' = wiped \cup {testdevs[n + 1]}
    /\ files' = files \cup Fio(testdevs[n + 1])
    /\ n' = n + 1
    /\ UNCHANGED <<host, parts, gaps, pc, dvfs, oldgovernor, bin, testdevs, todo, db, cron>>

-----------------------------------------------------------------------------
\* orchestrator.py

\* Socket a's id is a substring of the file name of socket b: the decimal
\* digits of a are the first digits of b.
InName(a, b) == a = b \/ (a # 0 /\ \E power \in {10, 100} : b \div power = a)

\* Mutant: every file of the benchmark is taken for every socket.
OfSocket_Any(s, f) == TRUE

OfSocket(s, f) == InName(s, f.socket)

Point(coll, tag, f) == [run |-> runs, coll |-> coll, tag |-> tag, file |-> f]

\* find_npb_cpu_st_tests() and find_npb_cpu_mt_tests() with the loop over
\* them: the files with and without DVFS, not the extra ones.
NpbPoints(coll) == {Point(coll, sf[1], sf[2]) :
    sf \in {x \in Sockets \X {f \in files : f.phase = coll} : OfSocket(x[1], x[2])}}

\* The membench and stream files that are read: those with DVFS.
MemLabels == {"yes"}
MemPoints(coll) == {Point(coll, f.socket, f) :
    f \in {g \in files : g.phase = coll /\ g.dvfs \in MemLabels}}

\* read_disks() and find_fio_benchmark_result_file().
FioPoints == {Point("fio", f.socket, f) :
    f \in {g \in files : g.phase = "fio" /\ \E i \in DOMAIN disks : disks[i] = g.socket}}

PointsOf(coll) == IF coll \in {"st", "mt"} THEN NpbPoints(coll)
                  ELSE IF coll = "fio" THEN FioPoints ELSE MemPoints(coll)

Order == <<"st", "mt", "membench", "stream", "fio">>

\* The loops go by socket and, for one socket, in the order of the directory;
\* for fio by line of disks.txt, then by test and depth.
IndexOf(q, x) == CHOOSE i \in DOMAIN q : q[i] = x
Rank(p) == IF p.coll # "fio" THEN p.tag
           ELSE 8 * IndexOf(disks, p.tag) + 2 * IndexOf(TestOrder, p.file.name)
                  + (IF p.file.run = 1 THEN 0 ELSE 1)

\* Lines 86-98: connect, then save the machine information if it is not there.
Unknown == \A p \in db : p.coll # "info"

StartUpload ==
    /\ pc = "fio" /\ n = Len(testdevs)
    /\ db' = IF Unknown THEN db \cup {Point("info", "none", "none")} ELSE db
    /\ pc' = "put" /\ n' = 1 /\ todo' = PointsOf("st")
    /\ UNCHANGED <<host, table, shell, testdevs, disks, cron>>

\* One write_dataframe().
Put(p) ==
    /\ pc = "put" /\ p \in todo
    /\ \A q \in todo : Rank(p) <= Rank(q)
    /\ db' = db \cup {p} /\ todo' = todo \ {p}
    /\ UNCHANGED <<host, table, pc, n, shell, testdevs, disks, cron>>

NextCollection ==
    /\ pc = "put" /\ todo = {}
    /\ IF n < Len(Order) THEN pc' = pc /\ todo' = PointsOf(Order[n + 1])
                         ELSE pc' = "done" /\ UNCHANGED todo
    /\ n' = n + 1
    /\ UNCHANGED <<host, table, shell, testdevs, disks, db, cron>>

-----------------------------------------------------------------------------
Script == \/ Bench \/ SaveGovernor \/ TurnOff \/ ChangeBack
          \/ SelectDisk \/ DiskInfo \/ RunFio
          \/ StartUpload \/ (\E p \in todo : Put(p)) \/ NextCollection

\* A command of the script, or a write of orchestrator.py, fails, or the
\* container is stopped.
Fail ==
    /\ "cmd" \in Faults /\ pc \notin Ended
    /\ pc' = "aborted"
    /\ UNCHANGED <<host, table, n, shell, testdevs, disks, todo, db, cron>>

\* cron starts the next container.
Cron ==
    /\ pc \in Ended /\ runs < machine.cron
    /\ Fresh
    /\ runs' = runs + 1 /\ found' = [msr |-> msr, gov |-> gov]
    /\ UNCHANGED <<host, table, db, machine>>

Next == Script \/ Fail \/ Cron

Spec == Init /\ [][Next]_vars

-----------------------------------------------------------------------------
\* The types of the host's and the script's variables; the loop variable stays
\* within the longest loop.
TypeOK ==
    /\ msr \in [Threads -> {"on", "off"}]
    /\ DOMAIN gov = Threads
    /\ dvfs \in {"yes", "no"}
    /\ n \in Nat /\ (pc \in Phases => n \in Sockets)
    /\ (pc \in {"off_msr", "off_gov", "restore_msr", "restore_gov"} => n \in Threads)
    /\ \A i \in DOMAIN testdevs : testdevs[i][2] \in DOMAIN parts[testdevs[i][1]]
    /\ runs \in 1 .. machine.cron

\* What a result file says of itself is how it was measured: on the binaries
\* built for its configuration, and with DVFS (clock modulation and governor of
\* every thread) as its label and column say; only where an earlier run, one
\* that broke off or one on a host with different governors, left the CPUs
\* changed do the labels say "dvfs" of what the run found.
LabelsTrue == \A f \in files : /\ f.really = f.dvfs
                                  \/ (f.dvfs = "yes" /\ ~AsBefore(found.msr, found.gov))
                               /\ f.phase \in {"st", "mt"} => f.built = f.phase
                               /\ f.phase = "extra" => f.built = "mt"

\* A run that completes leaves the CPUs as it found them, provided they all had
\* one governor and DVFS was on; where it turns DVFS off it leaves it on.
HostRestored ==
    pc = "done" => /\ (\A t \in Threads : found.gov[t] = found.gov[0]) => gov = found.gov
                   /\ On(found.msr) \/ machine.dvfs => On(msr)

\* What fio writes over is a partition that was labelled Empty, or one made
\* for it in the free space: never a partition with data.
DataSpared == \A w \in wiped : parts[w[1]][w[2]] # "data"

\* Each NPB file is saved once, under its own socket; a run that completes has
\* saved all of them, one membench and one stream file of each socket and
\* eight fio results of each device.  The description of the machine is there
\* before any result.
Of(coll) == {p \in db : p.run = runs /\ p.coll = coll}
SavedExactly ==
    /\ \A p \in db : p.coll \in {"st", "mt"} => p.tag = p.file.socket
    /\ db # {} => \E p \in db : p.coll = "info"
    /\ pc = "done" =>
         /\ \A c \in {"st", "mt"} : {p.file : p \in Of(c)} = {f \in files : f.phase = c}
         /\ \A c \in {"membench", "stream"} : Cardinality(Of(c)) = machine.nsockets
         /\ Cardinality(Of("fio")) = 8 * Cardinality(ToSet(testdevs))

\* A run in which no command fails by itself gets to the end.
RunsComplete == pc # "aborted"
=============================================================================
