----------------------------- MODULE ReplayTool -----------------------------
(***************************************************************************)
(* The replay command line tool (tools/replay) over the replay codec of    *)
(* engine/sim and the file functions of engine/platform (win32_file.cpp).  *)
(*                                                                         *)
(* Recorders simulate a run and write its replay to one path through a     *)
(* temporary file that is renamed; readers verify or inspect what is at    *)
(* the path.  They are processes: every file operation of one may come     *)
(* between two of another, any of them can fail, and a recorder can be     *)
(* killed anywhere.                                                        *)
(*                                                                         *)
(* Of the file system: a file is opened by its name, may be open for       *)
(* reading many times but for writing once and then not for reading, and   *)
(* an open file is not replaced.                                           *)
(***************************************************************************)
EXTENDS ReplayCodec, FiniteSets, Functions

CONSTANTS
    Recorders, Readers,
    MaxTicks,       (* bound on --ticks                                    *)
    MaxFileBytes,   (* MAX_REPLAY_FILE_BYTES                               *)
    MaxRecords,     (* bound on the recordings started                     *)
    Nobody, Absent

Align == 16         (* MEM_DEFAULT_ALIGN *)

VARIABLES
    file, first,    (* what is at the path, and what was there at first    *)
    temp,           (* the temporary file: who holds it, and its content   *)
    writing,        (* the recorder whose handle is on the renamed file    *)
    rec,            (* the recorders: step, run, progress                  *)
    ver,            (* the readers: step, file as loaded, progress         *)
    started,        (* recordings started                                  *)
    spilled         (* history: a kill or a failed discard left a file     *)

vars == <<file, first, temp, writing, rec, ver, started, spilled>>

----------------------------------------------------------------------------
(* The run a recorder was asked for, in full. *)
Recording(seed, ticks) ==
    LET world[k \in 0 .. ticks] ==
            IF k = 0 THEN NewWorld(seed) ELSE Ticked(world[k - 1], Generated(seed, k - 1))
    IN  [header |-> Header(seed, ticks),
         ticks  |-> [k \in 1 .. ticks |-> [commands |-> Generated(seed, k - 1),
                                           hash     |-> HashState(world[k])]],
         rest   |-> "end"]

(* record_capacity *)
Capacity(ticks) == HeaderSize + ticks * (TickSize + MaxPerTick * CommandSize)

Recordings ==
    {Recording(seed, ticks) : seed \in Seeds,
                              ticks \in {n \in 0 .. MaxTicks : Capacity(n) <= MaxFileBytes}}

(* Files from elsewhere: a recording with one thing wrong with it. *)
Damaged(r) ==
    LET numbers == 1 .. Len(r.ticks) IN
    {[r EXCEPT !.header.status = s] : s \in {"BAD_MAGIC", "BAD_LOGIC_HASH"}}
        \union {Stored(r, n) : n \in 0 .. Len(r.ticks)}
        \union {[r EXCEPT !.rest = s] : s \in {"loose", "bad_count"}}
        \union {[r EXCEPT !.header.ticks = n] : n \in 0 .. MaxTicks}
        \union {[r EXCEPT !.header.seed = @ + 1], [r EXCEPT !.ticks = @ \o @]}
        \union {[r EXCEPT !.ticks[k].hash = h] : k \in numbers, h \in 0 .. 1}
        \union {[r EXCEPT !.ticks[k].commands = <<c>>] :
                    k \in numbers, c \in {Velocity(0), Stale, Malformed}}

(* What may lie at the path when the tools start, and beside it later.     *)
FirstFiles == Recordings \union UNION {Damaged(r) : r \in Recordings}
Temps ==
    [by : Recorders \union {Nobody}, records : 0 .. MaxTicks + 1,
     bytes : UNION {{Stored(r, n) : n \in 0 .. Records(r)} : r \in Recordings}]

ASSUME ToolAssumption ==
    /\ MaxTicks \in Nat /\ MaxFileBytes \in Nat
    /\ Nobody \notin Recorders
    /\ Absent \notin FirstFiles \union Temps

Init ==
    /\ file \in {Absent} \union FirstFiles
    /\ first = file
    /\ temp = Absent /\ writing = Nobody
    /\ rec = [w \in Recorders |-> [pc |-> "idle"]]
    /\ ver = [r \in Readers |-> [pc |-> "idle"]]
    /\ started = 0 /\ spilled = FALSE

----------------------------------------------------------------------------
(* command_record *)
RecorderAt(w, pc) == rec[w].pc = pc
Goto(w, pc)       == rec' = [rec EXCEPT ![w].pc = pc]
Ended(w)          == rec' = [rec EXCEPT ![w] = [pc |-> "idle"]]

StartRecord(w, seed, ticks) ==
    /\ RecorderAt(w, "idle") /\ started < MaxRecords
    /\ started' = started + 1
    /\ rec' = [rec EXCEPT ![w] =
                IF Capacity(ticks) > MaxFileBytes THEN @
                ELSE [pc |-> "tick", seed |-> seed, ticks |-> ticks,
                      world |-> NewWorld(seed), bytes |-> Begun(seed, ticks)]]
    /\ UNCHANGED <<file, first, temp, writing, ver, spilled>>

(* One turn of the loop: generate, sim_tick, replay_write_tick. *)
RecordTick(w) ==
    LET n        == Len(rec[w].bytes.ticks)
        commands == Generated(rec[w].seed, n)
        world    == Ticked(rec[w].world, commands)
        bytes    == WithTick(rec[w].bytes, commands, world)
        fits     == FileSize(bytes) <= Capacity(rec[w].ticks)
    IN  /\ RecorderAt(w, "tick")
        /\ rec' = [rec EXCEPT ![w] =
                    IF n = rec[w].ticks THEN [@ EXCEPT !.pc = "create"]
                    ELSE IF Accepted(commands) /\ fits
                           THEN [@ EXCEPT !.world = world, !.bytes = bytes]
                           ELSE [pc |-> "idle"]]
        /\ UNCHANGED <<file, first, temp, writing, ver, started, spilled>>

(* platform_file_write: CREATE_NEW, and nobody else can open the file. *)
CreateAllowed == temp = Absent

CreateTemp(w) ==
    /\ RecorderAt(w, "create") /\ CreateAllowed
    /\ temp' = [by |-> w, bytes |-> Stored(rec[w].bytes, 0), records |-> 0]
    /\ Goto(w, "write")
    /\ UNCHANGED <<file, first, writing, ver, started, spilled>>

CreateFails(w) ==
    /\ RecorderAt(w, "create")
    /\ Ended(w)
    /\ UNCHANGED <<file, first, temp, writing, ver, started, spilled>>

(* Fault: one successful write is taken for the whole.                     *)
WholeWrittenOnce(w) == temp.records > 0

WholeWritten(w) == temp.records = Records(rec[w].bytes)

Write(w) ==
    /\ RecorderAt(w, "write") /\ ~WholeWritten(w)
    /\ temp' = [temp EXCEPT !.records = @ + 1,
                            !.bytes = Stored(rec[w].bytes, temp.records + 1)]
    /\ UNCHANGED <<file, first, writing, rec, ver, started, spilled>>

(* When all is written and flushed, win32_rename_open_file replaces the    *)
(* file if nobody has it open; the recorder's handle stays on it.          *)
FileInUse == writing # Nobody \/ \E r \in Readers : ver[r].pc = "read"

Rename(w) ==
    /\ RecorderAt(w, "write") /\ WholeWritten(w) /\ ~FileInUse
    /\ file' = temp.bytes
    /\ temp' = Absent
    /\ writing' = w
    /\ Goto(w, "close")
    /\ UNCHANGED <<first, ver, started, spilled>>

(* Fault: a failure leaves the temporary file behind.                      *)
DiscardNot(w) ==
    /\ RecorderAt(w, "discard")
    /\ temp' = [temp EXCEPT !.by = Nobody]
    /\ Ended(w)
    /\ UNCHANGED <<file, first, writing, ver, started, spilled>>

(* A write, the flush or the rename fails. *)
WriteFails(w) ==
    /\ RecorderAt(w, "write")
    /\ Goto(w, "discard")
    /\ UNCHANGED <<file, first, temp, writing, ver, started, spilled>>

(* win32_discard_open_file, and the handle is closed. *)
Discard(w) ==
    /\ RecorderAt(w, "discard")
    /\ temp' = Absent
    /\ Ended(w)
    /\ UNCHANGED <<file, first, writing, ver, started, spilled>>

DiscardFails(w) ==
    /\ RecorderAt(w, "discard")
    /\ temp' = [temp EXCEPT !.by = Nobody]
    /\ spilled' = TRUE
    /\ Ended(w)
    /\ UNCHANGED <<file, first, writing, ver, started>>

Close(w) ==
    /\ RecorderAt(w, "close")
    /\ writing' = Nobody
    /\ Ended(w)
    /\ UNCHANGED <<file, first, temp, ver, started, spilled>>

(* The process is killed: its handles are closed, its files stay. *)
Kill(w) ==
    /\ ~RecorderAt(w, "idle")
    /\ Ended(w)
    /\ writing' = IF writing = w THEN Nobody ELSE writing
    /\ IF temp # Absent /\ temp.by = w
         THEN temp' = [temp EXCEPT !.by = Nobody] /\ spilled' = TRUE
         ELSE UNCHANGED <<temp, spilled>>
    /\ UNCHANGED <<file, first, ver, started>>

----------------------------------------------------------------------------
(* command_verify and command_inspect *)
Exit(r, code) == ver' = [ver EXCEPT ![r].pc = "done", ![r].exit = code]

StartReader(r, mode) ==
    /\ ver[r].pc = "idle"
    /\ ver' = [ver EXCEPT ![r] = [pc |-> "stat", mode |-> mode, reserved |-> 0, size |-> 0,
                                  loaded |-> Absent, world |-> 0, tick |-> 0,
                                  exit |-> "none"]]
    /\ UNCHANGED <<file, first, temp, writing, rec, started, spilled>>

AtLeastOne(size) == IF size = 0 THEN 1 ELSE size

(* load_replay: the size of the file decides what is reserved for it. *)
Stat(r) ==
    /\ ver[r].pc = "stat"
    /\ IF file = Absent THEN Exit(r, "io")
       ELSE IF FileSize(file) > MaxFileBytes THEN Exit(r, "invalid")
       ELSE ver' = [ver EXCEPT ![r].pc = "open",
                               ![r].reserved = AtLeastOne(FileSize(file)) + Align]
    /\ UNCHANGED <<file, first, temp, writing, rec, started, spilled>>

(* bounded_arena_alloc returns memory or null. *)
Allocates(r) == AtLeastOne(FileSize(file)) <= ver[r].reserved

(* platform_file_read: the file is opened, measured and given memory ...   *)
Open(r) ==
    /\ ver[r].pc = "open"
    /\ IF file = Absent \/ writing # Nobody THEN Exit(r, "io")
       ELSE IF ~Allocates(r) THEN Exit(r, "io")
       ELSE ver' = [ver EXCEPT ![r].pc = "read", ![r].size = FileSize(file)]
    /\ UNCHANGED <<file, first, temp, writing, rec, started, spilled>>

(* ... and read and closed. *)
Read(r) ==
    /\ ver[r].pc = "read"
    /\ ver' = [ver EXCEPT ![r].loaded = file,
                          ![r].pc = IF ver[r].size > MaxFileBytes THEN "done" ELSE "header",
                          ![r].exit = IF ver[r].size > MaxFileBytes THEN "invalid" ELSE @]
    /\ UNCHANGED <<file, first, temp, writing, rec, started, spilled>>

ReadFails(r) ==
    /\ ver[r].pc = "read"
    /\ Exit(r, "io")
    /\ UNCHANGED <<file, first, temp, writing, rec, started, spilled>>

ReadHeader(r) ==
    /\ ver[r].pc = "header"
    /\ IF HeaderStatus(ver[r].loaded) # "OK" THEN Exit(r, "invalid")
       ELSE ver' = [ver EXCEPT ![r].pc = "tick",
                               ![r].world = NewWorld(ver[r].loaded.header.seed)]
    /\ UNCHANGED <<file, first, temp, writing, rec, started, spilled>>

(* One turn of the loop: replay_read_tick; a verifier also ticks its world *)
(* and compares the hash.                                                  *)
ReadTick(r) ==
    LET replay == ver[r].loaded
        n      == ver[r].tick
        read   == replay.ticks[n + 1]
        world  == Ticked(ver[r].world, read.commands)
    IN  /\ ver[r].pc = "tick" /\ n < replay.header.ticks
        /\ IF TickStatus(replay, n) # "OK" THEN Exit(r, "invalid")
           ELSE IF ver[r].mode = "inspect" THEN ver' = [ver EXCEPT ![r].tick = n + 1]
           ELSE IF ~Accepted(read.commands) THEN Exit(r, "invalid")
           ELSE IF HashState(world) # read.hash THEN Exit(r, "divergence")
           ELSE ver' = [ver EXCEPT ![r].tick = n + 1, ![r].world = world]
        /\ UNCHANGED <<file, first, temp, writing, rec, started, spilled>>

ReadEnd(r) ==
    /\ ver[r].pc = "tick" /\ ver[r].tick = ver[r].loaded.header.ticks
    /\ Exit(r, IF EndStatus(ver[r].loaded, ver[r].tick) = "OK" THEN "success" ELSE "invalid")
    /\ UNCHANGED <<file, first, temp, writing, rec, started, spilled>>

Next ==
    \/ \E w \in Recorders :
        \/ \E seed \in Seeds, ticks \in 0 .. MaxTicks : StartRecord(w, seed, ticks)
        \/ RecordTick(w)
        \/ CreateTemp(w) \/ CreateFails(w)
        \/ Write(w) \/ Rename(w) \/ WriteFails(w)
        \/ Discard(w) \/ DiscardFails(w)
        \/ Close(w) \/ Kill(w)
    \/ \E r \in Readers :
        \/ \E mode \in {"verify", "inspect"} : StartReader(r, mode)
        \/ Stat(r) \/ Open(r) \/ Read(r) \/ ReadFails(r)
        \/ ReadHeader(r) \/ ReadTick(r) \/ ReadEnd(r)

Spec == Init /\ [][Next]_vars

----------------------------------------------------------------------------
(* At the path is what was there or a whole recording, and no reader loads *)
(* anything else, wherever recorders fail or are killed: "readers never    *)
(* observe a torn file" (platform.h).                                      *)
PublishedWhole ==
    /\ file \in {first} \union Recordings
    /\ \A r \in Readers :
        ver[r].pc # "idle" => ver[r].loaded \in {Absent, first} \union Recordings

(* A temporary file without a recorder is left by a kill or by a discard   *)
(* that the system refuses, never by a recording that merely failed.       *)
NoLeftovers == temp # Absent /\ ~spilled => temp.by # Nobody

(* What a file says of its run, said without reading it step by step. *)
Worlds(replay) ==
    LET world[k \in 0 .. Len(replay.ticks)] ==
            IF k = 0 THEN NewWorld(replay.header.seed)
            ELSE Ticked(world[k - 1], replay.ticks[k].commands)
    IN  world

Matches(replay, k) ==
    /\ k <= Len(replay.ticks)
    /\ Accepted(replay.ticks[k].commands)
    /\ replay.ticks[k].hash = HashState(Worlds(replay)[k])

WellFormed(replay) ==
    /\ replay.header.status = "OK" /\ replay.rest = "end"
    /\ Len(replay.ticks) = replay.header.ticks
    /\ \A k \in 1 .. Len(replay.ticks) : ToSet(replay.ticks[k].commands) \subseteq Canonical

Faithful(replay) ==
    WellFormed(replay) /\ \A k \in 1 .. Len(replay.ticks) : Matches(replay, k)

(* A verifier succeeds on exactly the files that are well formed and whose *)
(* hashes are those of the run they describe, every recording among them;  *)
(* a divergence is reported at the first tick that differs, behind ticks   *)
(* that all match; and only a file with a fault of form is called invalid. *)
VerdictExact ==
    \A r \in Readers :
        LET replay == ver[r].loaded
            exit   == ver[r].exit
        IN  ver[r].pc = "done" /\ exit # "io" /\ replay # Absent =>
            /\ (exit = "success") = (IF ver[r].mode = "verify" THEN Faithful(replay)
                                                               ELSE WellFormed(replay))
            /\ exit = "divergence" =>
                /\ \A k \in 1 .. ver[r].tick : Matches(replay, k)
                /\ ~Matches(replay, ver[r].tick + 1)
                /\ Accepted(replay.ticks[ver[r].tick + 1].commands)
            /\ exit = "invalid" =>
                \/ ~WellFormed(replay)
                \/ \E k \in 1 .. Len(replay.ticks) : ~Accepted(replay.ticks[k].commands)
            /\ replay \in Recordings => exit = "success"
=============================================================================
