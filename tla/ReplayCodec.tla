---------------------------- MODULE ReplayCodec ----------------------------
(***************************************************************************)
(* The replay format of engine/sim (replay.cpp over byte_io.cpp) and what  *)
(* it records: the commands of every tick of a run of the simulation and   *)
(* the hash of the state after it.                                         *)
(*                                                                         *)
(* Abstracted: a file is what a reader finds in it from left to right, its *)
(* header, the ticks that can be read, and what is behind the last of      *)
(* them; sizes are the code's.  The simulation is a deterministic function *)
(* of a small state, its hash is without collisions, and a command is one  *)
(* of a few.                                                               *)
(***************************************************************************)
EXTENDS Integers, Sequences, SequencesExt

CONSTANTS
    Seeds,
    StateMod,                       (* states of the simulation            *)
    VelocityEvery, DamageEvery      (* 30 and 17 in the code               *)

ASSUME CodecAssumption ==
    /\ Seeds \subseteq Nat
    /\ {StateMod, VelocityEvery, DamageEvery} \subseteq Nat \ {0}

(* REPLAY_*_ENCODED_SIZE and REPLAY_PLACEHOLDER_MAX_COMMANDS *)
HeaderSize  == 44
TickSize    == 12
CommandSize == 16
MaxPerTick  == 2

(* Commands: what the generator issues, one that is canonical but names a  *)
(* unit the world does not have, and one that is not canonical.            *)
Velocity(bits) == 1 + bits
Damage(bits)   == 3 + bits
Stale          == 5
Malformed      == 6
Canonical      == 1 .. 5

----------------------------------------------------------------------------
(* The simulation as a replay sees it: sim_init, the acceptance and the    *)
(* effect of sim_tick, sim_hash_state, which is 0 for invalid worlds only. *)
NewWorld(seed)      == seed % StateMod
Accepted(commands)  == \A k \in 1 .. Len(commands) : commands[k] \in Canonical \ {Stale}
Ticked(world, commands) ==
    FoldLeft(LAMBDA w, c : (2 * w + c) % StateMod, (world + 1) % StateMod, commands)
HashState(world)    == world + 1

(* replay_generate_placeholder_commands *)
Generated(seed, tick) ==
    LET bits == (seed + tick) % 2 IN
    (IF tick % VelocityEvery = 0 THEN <<Velocity(bits)>> ELSE << >>) \o
    (IF tick % DamageEvery = 0 THEN <<Damage(bits)>> ELSE << >>)

----------------------------------------------------------------------------
(* A header that can be read and passes validate_header has status OK. *)
Header(seed, ticks) == [status |-> "OK", seed |-> seed, ticks |-> ticks]

(* What is behind the last tick that can be read: nothing, bytes too few   *)
(* for one more, or one with a count beyond the limit.                     *)
RestSize == [end |-> 0, loose |-> 4, bad_count |-> TickSize]

EncodedSize(tick) == TickSize + CommandSize * Len(tick.commands)

Remaining(file, read) ==
    FoldLeft(LAMBDA n, tick : n + EncodedSize(tick), RestSize[file.rest],
             SubSeq(file.ticks, read + 1, Len(file.ticks)))

FileSize(file) ==
    IF file.header.status = "TRUNCATED" THEN RestSize[file.rest]
                                        ELSE HeaderSize + Remaining(file, 0)

(* replay_read_header, with the check that so many ticks can be there. *)
HeaderStatus(file) ==
    IF file.header.status # "OK" THEN file.header.status
    ELSE IF file.header.ticks > Remaining(file, 0) \div TickSize THEN "TRUNCATED"
    ELSE "OK"

(* replay_read_tick, for the tick behind the first n. *)
TickStatus(file, n) ==
    IF n < Len(file.ticks)
      THEN IF ToSet(file.ticks[n + 1].commands) \subseteq Canonical
             THEN "OK" ELSE "BAD_COMMAND"
      ELSE IF file.rest = "bad_count" THEN "BAD_COMMAND_COUNT" ELSE "TRUNCATED"

(* Fault: bytes behind the last tick are not looked at.                    *)
EndStatusAny(file, n) == "OK"

(* replay_require_end *)
EndStatus(file, n) == IF Remaining(file, n) = 0 THEN "OK" ELSE "TRAILING_BYTES"

(* replay_write_tick: the file with one more tick and the state after it. *)
WithTick(file, commands, world) ==
    [file EXCEPT !.ticks = Append(@, [commands |-> commands, hash |-> HashState(world)])]

(* replay_write_header *)
Begun(seed, ticks) == [header |-> Header(seed, ticks), ticks |-> << >>, rest |-> "end"]

(* The file after some of its records were stored, the header the first. *)
Stored(file, records) ==
    IF records = 0
      THEN [file EXCEPT !.header.status = "TRUNCATED", !.ticks = << >>]
      ELSE [file EXCEPT !.ticks = SubSeq(@, 1, records - 1)]

Records(file) == 1 + Len(file.ticks)
=============================================================================
