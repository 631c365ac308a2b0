----------------------------- MODULE AssetFiles -----------------------------
(***************************************************************************)
(* How files become assets: the cooker (tools/cooker), which bakes a       *)
(* texture into an .mba file, and the loads of the registry (assets.cpp),  *)
(* which read a file below the asset root (win32_file.cpp), parse it       *)
(* (mba.cpp, tga.cpp, wav.cpp) and register what it holds.                 *)
(*                                                                         *)
(* Cookers write in place and can be killed, or run out of disk, in the    *)
(* middle.  While one has a file open nobody can read, replace or move it, *)
(* but nothing keeps another cooker from opening it as well: their bytes   *)
(* mix.  Files are moved about by others.  Sizes are in units of an arena, a header is     *)
(* one unit; the pixels or samples are one content.  A load is one step:   *)
(* the I/O arena is empty before and after, and a file that is open for    *)
(* reading cannot be written.                                              *)
(***************************************************************************)
EXTENDS AssetRegistry

CONSTANTS
    IoRoom,         (* size of the I/O arena                               *)
    MaxFile,        (* max_file_bytes                                      *)
    Scenarios       (* writes: bound on the writes and moves of files;     *)
                    (* callers: do callers register data of their own;     *)
                    (* names, contents, formats: what the files are        *)

(* What is cooked is whole, and a loose file is not a baked one.           *)
ASSUME FilesAssumption ==
    \A s \in Scenarios :
        /\ s.names \subseteq Names
        /\ {"torn", "mixed"} \cap s.contents = {}
        /\ s.formats \subseteq {"tga", "wav"}

VARIABLES
    disk,           (* path -> file, for those that exist                  *)
    cooking,        (* the cooks that are under way                        *)
    writes,
    shown,          (* slot -> what its payload shows, and its origin      *)
    cooked,         (* history: the cooks that were completed              *)
    scenario        (* what this behaviour may meet                        *)

registry == vars
files    == <<disk, cooking, writes, cooked, scenario>>
all      == <<registry, files, shown>>

Header == 1

FilesInit ==
    /\ Init
    /\ disk = << >> /\ cooking = {} /\ writes = 0
    /\ shown = << >>
    /\ cooked = {}
    /\ scenario \in Scenarios

----------------------------------------------------------------------------
WithFile(path, file) == [p \in DOMAIN disk \union {path} |-> IF p = path THEN file ELSE disk[p]]

Open == {cook.path : cook \in cooking}

(* A cooker opens its output, which empties it, with what it will write:   *)
(* the asset id is an argument of its own.  Whoever has the file open goes *)
(* on writing to it.                                                       *)
CookBegin(path, id, size, content) ==
    /\ writes < scenario.writes
    /\ cooking' = cooking \union {[no |-> writes, path |-> path, id |-> id,
                                    size |-> size, content |-> content]}
    /\ disk' = WithFile(path, [format |-> "mba", id |-> id, size |-> size, written |-> 0,
                               content |-> content, mixed |-> path \in Open])
    /\ writes' = writes + 1
    /\ UNCHANGED <<registry, shown, cooked, scenario>>

(* How long a file is once a cook has written so much: a file of several   *)
(* cooks has lost what they wrote before the last of them opened it.       *)
Lengths(file, written) ==
    IF file.mixed THEN {file.written} \union file.written .. written ELSE {written}

(* cooker_write_file gets to the end, or not: a failed write and a killed  *)
(* cooker leave the part that was written.  In a file of several cooks the *)
(* header is that of whoever wrote it last.                                *)
CookEnd(cook) ==
    LET file == disk[cook.path] IN
    \E written \in 0 .. Header + cook.size, header \in {cook, file} :
        /\ \E length \in Lengths(file, written) :
            disk' = [disk EXCEPT ![cook.path] =
                        [file EXCEPT !.id = header.id, !.size = header.size,
                                     !.written = length]]
        /\ cooked' = IF written = Header + cook.size
                       THEN cooked \union {[id |-> cook.id, content |-> cook.content]}
                       ELSE cooked
        /\ cooking' = cooking \ {cook}
        /\ UNCHANGED <<registry, writes, shown, scenario>>

(* Loose files appear, perhaps cut off, and files are moved. *)
Place(path, format, size, written, content) ==
    /\ path \notin Open
    /\ writes < scenario.writes
    /\ disk' = WithFile(path, [format |-> format, id |-> path.id, size |-> size,
                               written |-> written, content |-> content,
                               mixed |-> FALSE])
    /\ writes' = writes + 1
    /\ UNCHANGED <<registry, cooking, shown, cooked, scenario>>

Move(from, to) ==
    /\ from \in DOMAIN disk /\ from # to
    /\ from \notin Open /\ to \notin Open
    /\ writes < scenario.writes
    /\ disk' = [p \in (DOMAIN disk \union {to}) \ {from} |-> IF p = to THEN disk[from]
                                                                     ELSE disk[p]]
    /\ writes' = writes + 1
    /\ UNCHANGED <<registry, cooking, shown, cooked, scenario>>

----------------------------------------------------------------------------
(* platform_file_read_rooted: not while it is written, not empty and not   *)
(* above the limit.                                                        *)
Readable(path) ==
    /\ path \in DOMAIN disk \ Open
    /\ disk[path].written \in 1 .. MaxFile
    /\ disk[path].written <= IoRoom

(* Fault: what the header promises is not compared with the file's size.   *)
BakedTorn(path) ==
    /\ disk[path].format = "mba"
    /\ disk[path].written >= Header
    /\ disk[path].id = path.id

(* mba_inspect, and the id of the path: the file is as long as its header  *)
(* says, and was baked for this id.                                        *)
Baked(path) ==
    /\ disk[path].format = "mba"
    /\ disk[path].written = Header + disk[path].size
    /\ disk[path].id = path.id

(* tga_inspect and wav_inspect_pcm, and the room to decode in. *)
Loose(path, format) ==
    /\ disk[path].format = format
    /\ disk[path].written = Header + disk[path].size
    /\ disk[path].written + disk[path].size <= IoRoom

(* What a file shows: its content, if it is there to the end, and not that *)
(* of several cooks.                                                       *)
ContentOf(file) ==
    IF file.written # Header + file.size THEN "torn"
    ELSE IF file.mixed THEN "mixed" ELSE file.content

(* A slot that was not live shows the content from now on. *)
Shows(origin, content) ==
    shown' = [i \in DOMAIN assets' |->
                IF i \in Live THEN shown[i] ELSE [origin |-> origin, content |-> content]]

(* asset_load: the file is read and inspected before the index is asked.   *)
LoadBaked(path, lifetime) ==
    /\ initialized
    /\ Readable(path)
    /\ Baked(path)
    /\ \/ Acquire(path, "texture", lifetime)
       \/ RegisterTexture(path, lifetime, disk[path].size)
    /\ Shows("baked", ContentOf(disk[path]))
    /\ UNCHANGED files

(* asset_load_texture_tga and _sound_wav: an asset that is loaded is       *)
(* acquired without a look at the file.                                    *)
LoadLoose(path, format, lifetime) ==
    /\ initialized
    /\ LET type == IF format = "tga" THEN "texture" ELSE "sound" IN
       \/ Acquire(path, type, lifetime)
       \/ /\ Readable(path)
          /\ Loose(path, format)
          /\ IF type = "texture" THEN RegisterTexture(path, lifetime, disk[path].size)
                                 ELSE RegisterSound(path, lifetime, disk[path].size)
    /\ Shows("loose", IF path \in DOMAIN disk THEN ContentOf(disk[path]) ELSE "none")
    /\ UNCHANGED files

(* A caller's own pixels or samples. *)
Register(path, lifetime, size) ==
    /\ scenario.callers
    /\ \/ RegisterTexture(path, lifetime, size) \/ RegisterSound(path, lifetime, size)
       \/ \E type \in Types : Acquire(path, type, lifetime)
    /\ Shows("caller", "own")
    /\ UNCHANGED files

Unload ==
    /\ UnloadLevel \/ Shutdown \/ \E h \in Handles : ReleaseGlobal(h)
    /\ shown' = [i \in DOMAIN assets' |-> shown[i]]
    /\ UNCHANGED files

FilePaths == {path \in Paths : path.name \in scenario.names}

Loads ==
    \E path \in Paths, lifetime \in Lifetimes :
        \/ LoadBaked(path, lifetime)
        \/ \E format \in {"tga", "wav"} : LoadLoose(path, format, lifetime)

Writers ==
    \E path \in FilePaths, size \in Sizes :
        \/ \E id \in Ids, content \in scenario.contents : CookBegin(path, id, size, content)
        \/ \E format \in scenario.formats, written \in {size, Header + size} :
            Place(path, format, size, written, "loose")

FilesNext ==
    \/ Writers
    \/ \E cook \in cooking : CookEnd(cook)
    \/ \E from, to \in FilePaths : Move(from, to)
    \/ Loads
    \/ \E path \in Paths, lifetime \in Lifetimes, size \in Sizes : Register(path, lifetime, size)
    \/ Unload

FilesSpec == FilesInit /\ [][FilesNext]_all

----------------------------------------------------------------------------
(* Nothing that is loaded was cut off, and a texture loaded from a baked   *)
(* file shows pixels that a completed cook baked for its id: not those of  *)
(* a cooker that was killed, not a file moved to another path's place, not *)
(* what was there before two cooks in a row.  Excepted are files that      *)
(* several cookers had open at a time: main.cpp of the cooker keeps them   *)
(* not apart, and neither size nor id tells a mixture from a whole.        *)
LoadedAsBaked ==
    \A i \in Live :
        /\ shown[i].content # "torn"
        /\ shown[i].origin = "baked" /\ shown[i].content # "mixed" =>
            [id |-> assets[i].path.id, content |-> shown[i].content] \in cooked
=============================================================================
