---------------------------- MODULE ToolCatalogue ----------------------------
(***************************************************************************)
(* The tools a client can call: the directory of scripts, the loader that  *)
(* reads it (services/LuaToolLoader.cpp), the registry, and the client     *)
(* that is told of changes (setChangeCallback in core/McpServer.cpp) and   *)
(* lists the tools again.                                                  *)
(*                                                                         *)
(* main() loads the scripts, registers the built-in tools and then serves. *)
(* From there on reload() runs in a worker, whenever a client calls        *)
(* reload_lua_tools; the loader's mutex admits one at a time, so one       *)
(* control state is enough.  Scripts are written and removed by others at  *)
(* any time, and tools/list is answered by the reader meanwhile.           *)
(***************************************************************************)
EXTENDS ToolRegistry, FiniteSets

CONSTANTS
    Builtins,   \* the names of the self-registered tools
    Disabled,   \* disabled_tools, with the groups expanded
    Contents,   \* what a script may be: [single: it returns one tool, not a
                \* list; names: the tools it defines, none if it fails]
    MaxTime,    \* bound on the modification times: each write has its own
    NoFile

VARIABLES
    disk,       \* the scripts: [time, content], the time 0 for none
    unused,     \* the times no write has had
    dirExists,
    phase,      \* main(): "boot", "builtins" or "serving"
    left0,      \* the built-in tools still to be registered
    rpc,        \* where reload() is
    current,    \* currentFiles: the times it found
    left,       \* the scripts that are left in this pass
    file,       \* the script it is at, or NoFile
    drops,      \* the names of that script still to be unregistered
    adds,       \* the names of that script still to be registered
    defs,       \* defsRes: [names, version]
    fileTimes,  \* m_fileTimes, 0 for no entry
    toolNames,  \* m_pathToToolNames, the empty sequence for no entry
    owed,       \* the registry has changed and its callback has not run
    asked,      \* a tools/list is being answered
    snap,       \* the snapshot it is answered with
    known,      \* the list the client relies on, empty for none
    dirty,      \* the client has been notified since it last asked
    clashed     \* history: the names that were taken from another owner

registry == <<tools, index>>
scripts == <<disk, unused, dirExists>>
boot == <<phase, left0>>
pass == <<rpc, current, left>>
atFile == <<file, drops, adds, defs>>
loader == <<fileTimes, toolNames>>
client == <<asked, snap, known, dirty>>
vars == <<registry, scripts, boot, pass, atFile, loader, owed, client, clashed>>

Times == 1 .. MaxTime
NoContent == [single |-> FALSE, names |-> <<>>]
NoDefs == [names |-> <<>>, version |-> 0]

ASSUME CatalogueAssumption ==
    /\ MaxTime \in Nat
    /\ Builtin \notin Files \cup {NoFile} /\ NoFile \notin Files
    /\ Builtins \subseteq Names
    /\ Contents \subseteq [single : BOOLEAN, names : Seq(Names)]
    /\ \A c \in Contents : c.single => Len(c.names) <= 1

Init ==
    /\ tools = <<>>
    /\ index = [n \in {} |-> NoFile]
    /\ disk = [f \in Files |-> [time |-> 0, content |-> NoContent]]
    /\ unused = Times
    /\ dirExists = TRUE
    /\ phase = "boot"
    /\ left0 = Builtins \ Disabled
    /\ rpc = "off"
    /\ current = [f \in Files |-> 0]
    /\ left = {}
    /\ file = NoFile
    /\ drops = <<>>
    /\ adds = <<>>
    /\ defs = NoDefs
    /\ fileTimes = [f \in Files |-> 0]
    /\ toolNames = [f \in Files |-> <<>>]
    /\ owed = FALSE
    /\ asked = FALSE
    /\ snap = <<>>
    /\ known = <<>>
    /\ dirty = TRUE
    /\ clashed = {}

-----------------------------------------------------------------------------
(* The directory of scripts.  A write may put back an older script, with   *)
(* its older time.                                                         *)

WriteScript(f, c) ==
    \E t \in unused :
        /\ disk' = [disk EXCEPT ![f] = [time |-> t, content |-> c]]
        /\ unused' = unused \ {t}
        /\ dirExists' = TRUE
        /\ UNCHANGED <<registry, boot, pass, atFile, loader, owed, client,
                       clashed>>

RemoveScript(f) ==
    /\ disk[f].time # 0
    /\ disk' = [disk EXCEPT ![f] = [time |-> 0, content |-> NoContent]]
    /\ UNCHANGED <<registry, unused, dirExists, boot, pass, atFile, loader,
                   owed, client, clashed>>

RemoveDirectory ==
    /\ dirExists
    /\ disk' = [f \in Files |-> [time |-> 0, content |-> NoContent]]
    /\ dirExists' = FALSE
    /\ UNCHANGED <<registry, unused, boot, pass, atFile, loader, owed, client,
                   clashed>>

-----------------------------------------------------------------------------
(* LuaToolLoader::reload.                                                  *)

\* loadAll() in main() is done, or a call of reload_lua_tools.
Return ==
    /\ rpc' = "off"
    /\ phase' = IF phase = "boot" THEN "builtins" ELSE phase

MayReload == rpc = "off" /\ phase \in {"boot", "serving"}

ReloadNothing ==
    /\ MayReload
    /\ ~dirExists
    /\ dirExists' = TRUE
    /\ Return
    /\ UNCHANGED <<registry, disk, unused, left0, current, left, atFile,
                   loader, owed, client, clashed>>

BeginReload ==
    /\ MayReload
    /\ dirExists
    /\ rpc' = "scan"
    /\ left' = Files
    /\ UNCHANGED <<registry, scripts, boot, current, atFile, loader, owed,
                   client, clashed>>

\* The iterator is at f, or passes it by: it is not there, or its time cannot
\* be read.
Scan(f) ==
    /\ rpc = "scan"
    /\ f \in left
    /\ \E t \in {disk[f].time, 0} : current' = [current EXCEPT ![f] = t]
    /\ left' = left \ {f}
    /\ UNCHANGED <<registry, scripts, boot, rpc, atFile, loader, owed, client,
                   clashed>>

\* Pass 1 is over the scripts that were deleted.
BeginGone ==
    /\ rpc = "scan"
    /\ left = {}
    /\ rpc' = "gone"
    /\ left' = {f \in Files : fileTimes[f] # 0 /\ current[f] = 0}
    /\ UNCHANGED <<registry, scripts, boot, current, atFile, loader, owed,
                   client, clashed>>

PickGone(f) ==
    /\ rpc = "gone"
    /\ file = NoFile
    /\ f \in left
    /\ file' = f
    /\ drops' = toolNames[f]
    /\ UNCHANGED <<registry, scripts, boot, pass, adds, defs, loader, owed,
                   client, clashed>>

IsNew(f) == fileTimes[f] = 0
IsModified(f) == ~IsNew(f) /\ fileTimes[f] < current[f]

\* Pass 2 is over the scripts that are new or modified.
BeginLoad ==
    /\ rpc = "gone"
    /\ left = {}
    /\ rpc' = "load"
    /\ left' = {f \in Files : current[f] # 0 /\ (IsNew(f) \/ IsModified(f))}
    /\ UNCHANGED <<registry, scripts, boot, current, atFile, loader, owed,
                   client, clashed>>

\* Mutant of Load: what the script defined before is left registered.
LoadOver(f) ==
    /\ rpc = "load"
    /\ file = NoFile
    /\ f \in left
    /\ disk[f].content.names # <<>>
    /\ file' = f
    /\ drops' = <<>>
    /\ adds' = disk[f].content.names
    /\ defs' = [names |-> adds', version |-> disk[f].time]
    /\ UNCHANGED <<registry, scripts, boot, pass, loader, owed, client,
                   clashed>>

\* loadToolDefinitions has run the script.
Load(f) ==
    /\ rpc = "load"
    /\ file = NoFile
    /\ f \in left
    /\ disk[f].content.names # <<>>
    /\ file' = f
    /\ drops' = toolNames[f]
    /\ adds' = disk[f].content.names
    /\ defs' = [names |-> adds', version |-> disk[f].time]
    /\ UNCHANGED <<registry, scripts, boot, pass, loader, owed, client,
                   clashed>>

\* It is not there any more, does not run, or may not: checkPath denies it, or the
\* hook ends it.  What it defined before stays.
LoadFails(f) ==
    /\ rpc = "load"
    /\ file = NoFile
    /\ f \in left
    /\ left' = left \ {f}
    /\ UNCHANGED <<registry, scripts, boot, rpc, current, atFile, loader, owed,
                   client, clashed>>

\* Mutant of Drop: the callback is not called for a tool that goes.
DropSilently ==
    /\ ~owed
    /\ drops # <<>>
    /\ Unregister(Head(drops))
    /\ drops' = Tail(drops)
    /\ UNCHANGED <<scripts, boot, pass, file, adds, defs, loader, owed, client,
                   clashed>>

\* The registry has a callback while a server exists.
Drop ==
    /\ ~owed
    /\ drops # <<>>
    /\ Unregister(Head(drops))
    /\ owed' = (phase = "serving" /\ HasTool(Head(drops)))
    /\ drops' = Tail(drops)
    /\ UNCHANGED <<scripts, boot, pass, file, adds, defs, loader, client,
                   clashed>>

Clashes(t) == HasTool(t.name) /\ index[t.name].file # t.file

Add ==
    /\ ~owed
    /\ drops = <<>>
    /\ adds # <<>>
    /\ LET t == [name |-> Head(adds), file |-> file, version |-> defs.version]
       IN  /\ RegisterOrReplace(t)
           /\ clashed' = IF Clashes(t) THEN clashed \cup {t.name} ELSE clashed
    /\ owed' = (phase = "serving")
    /\ adds' = Tail(adds)
    /\ UNCHANGED <<scripts, boot, pass, file, drops, defs, loader, client>>

\* notifyToolsListChanged, in the thread that changed the registry.
Notify ==
    /\ owed
    /\ owed' = FALSE
    /\ dirty' = TRUE
    /\ known' = <<>>
    /\ UNCHANGED <<registry, scripts, boot, pass, atFile, loader, asked, snap,
                   clashed>>

FileDone ==
    /\ file # NoFile
    /\ ~owed
    /\ drops = <<>>
    /\ adds = <<>>
    /\ left' = left \ {file}
    /\ file' = NoFile
    /\ defs' = NoDefs
    /\ UNCHANGED <<registry, scripts, boot, rpc, current, drops, adds, owed,
                   client, clashed>>

Forget ==
    /\ rpc = "gone"
    /\ FileDone
    /\ toolNames' = [toolNames EXCEPT ![file] = <<>>]
    /\ fileTimes' = [fileTimes EXCEPT ![file] = 0]

\* Mutant of Remember: the time is that of the script as it is now.
RememberNow ==
    /\ rpc = "load"
    /\ FileDone
    /\ toolNames' = [toolNames EXCEPT ![file] = defs.names]
    /\ fileTimes' = [fileTimes EXCEPT ![file] = disk[file].time]

Remember ==
    /\ rpc = "load"
    /\ FileDone
    /\ toolNames' = [toolNames EXCEPT ![file] = defs.names]
    /\ fileTimes' = [fileTimes EXCEPT ![file] = current[file]]

EndReload ==
    /\ rpc = "load"
    /\ file = NoFile
    /\ left = {}
    /\ Return
    /\ current' = [f \in Files |-> 0]
    /\ UNCHANGED <<registry, scripts, left0, left, atFile, loader, owed, client,
                   clashed>>

-----------------------------------------------------------------------------
(* main(), after loadAll().                                                *)

RegisterBuiltin(n) ==
    LET t == [name |-> n, file |-> Builtin, version |-> 0]
    IN  /\ phase = "builtins"
        /\ n \in left0
        /\ RegisterOrReplace(t)
        /\ clashed' = IF Clashes(t) THEN clashed \cup {n} ELSE clashed
        /\ left0' = left0 \ {n}
        /\ UNCHANGED <<scripts, phase, pass, atFile, loader, owed, client>>

Serve ==
    /\ phase = "builtins"
    /\ left0 = {}
    /\ phase' = "serving"
    /\ UNCHANGED <<registry, scripts, left0, pass, atFile, loader, owed,
                   client, clashed>>

-----------------------------------------------------------------------------
(* The client, which has no use for a list after it was notified and asks  *)
(* again, and the reader.  A message counts as delivered when it is sent:  *)
(* what a slow client does late is covered by its asking late.             *)

\* handleToolsList takes a snapshot as soon as it is asked: after a change in
\* between, whose notification is still to come, the client asks once more.
Snapshot ==
    /\ phase = "serving"
    /\ dirty
    /\ ~asked
    /\ asked' = TRUE
    /\ dirty' = FALSE
    /\ snap' = tools
    /\ UNCHANGED <<registry, scripts, boot, pass, atFile, loader, owed, known,
                   clashed>>

\* It sends the snapshot, when the registry may have changed.
SendList ==
    /\ asked
    /\ asked' = FALSE
    /\ known' = IF dirty THEN <<>> ELSE snap
    /\ snap' = <<>>
    /\ UNCHANGED <<registry, scripts, boot, pass, atFile, loader, owed, dirty,
                   clashed>>

-----------------------------------------------------------------------------
DiskEvent ==
    \/ \E f \in Files : RemoveScript(f) \/ \E c \in Contents : WriteScript(f, c)
    \/ RemoveDirectory

ReloadStep ==
    \/ BeginGone \/ BeginLoad \/ EndReload
    \/ \E f \in Files : Scan(f) \/ PickGone(f) \/ Load(f) \/ LoadFails(f)
    \/ Drop \/ Add \/ Notify \/ Forget \/ Remember

Next ==
    \/ DiskEvent
    \/ ReloadNothing \/ BeginReload \/ ReloadStep
    \/ Serve \/ \E n \in Builtins : RegisterBuiltin(n)
    \/ Snapshot \/ SendList

Spec == Init /\ [][Next]_vars

-----------------------------------------------------------------------------
(* LuaRuntime::executeTool runs the script again, as it is at the call: by *)
(* the name of the tool if it returns a list, whatever the name if it      *)
(* returns one tool, and with a result but no effect if no name matches.   *)

Execute(t) ==
    LET c == disk[t.file].content
    IN  IF c.names = <<>> THEN "error"
        ELSE IF c.single THEN Head(c.names)
        ELSE IF \E i \in DOMAIN c.names : c.names[i] = t.name THEN t.name
        ELSE "nothing"

-----------------------------------------------------------------------------
(* Properties.                                                             *)

TypeOK ==
    /\ tools \in Seq(Tools)
    /\ DOMAIN index \subseteq Names
    /\ \A n \in DOMAIN index : index[n] \in Tools
    /\ disk \in [Files -> [time : Times \cup {0},
                           content : Contents \cup {NoContent}]]
    /\ unused \subseteq Times
    /\ dirExists \in BOOLEAN
    /\ phase \in {"boot", "builtins", "serving"}
    /\ left0 \subseteq Builtins
    /\ rpc \in {"off", "scan", "gone", "load"}
    /\ current \in [Files -> Times \cup {0}]
    /\ left \subseteq Files
    /\ file \in Files \cup {NoFile}
    /\ drops \in Seq(Names) /\ adds \in Seq(Names)
    /\ defs \in [names : Seq(Names), version : Times \cup {0}]
    /\ fileTimes \in [Files -> Times \cup {0}]
    /\ toolNames \in [Files -> Seq(Names)]
    /\ owed \in BOOLEAN /\ dirty \in BOOLEAN /\ asked \in BOOLEAN
    /\ snap \in Seq(Tools) /\ known \in Seq(Tools)
    /\ clashed \subseteq Names

NamesIn(s) == {s[i] : i \in DOMAIN s}

\* The loader and the registry agree on whose a tool is.  A script that was
\* loaded has its tools registered, whatever happens to other scripts, unless
\* another owner has had the name; and the script a tool comes from is one
\* whose removal will unregister it.
LoaderOwnsTools ==
    /\ \A f \in Files \ {file} : \A n \in NamesIn(toolNames[f]) \ clashed :
          HasTool(n) /\ index[n].file = f
    /\ \A n \in DOMAIN index :
          LET f == index[n].file
          IN  \/ f = Builtin /\ n \in Builtins \ Disabled
              \/ f = file /\ n \in NamesIn(drops) \cup NamesIn(defs.names)
              \/ f \in Files \ {file} /\ n \in NamesIn(toolNames[f])

\* A script that reload() will not look at again, since it has the time the
\* loader remembers, is the one that was loaded, although it may have been
\* written between the scan and the load: its tools have its schemas, and a
\* call of one runs that tool.
UpToDate ==
    \A f \in Files :
        fileTimes[f] # 0 /\ fileTimes[f] = disk[f].time =>
            /\ toolNames[f] = disk[f].content.names
            /\ \A n \in DOMAIN index :
                  index[n].file = f =>
                      /\ index[n].version = disk[f].time
                      /\ Execute(index[n]) = n

\* A client that refetches whenever it was notified has the tools of the
\* registry as soon as nothing is under way, even when a list was prepared
\* before a change and sent after its notification.
CaughtUp ==
    phase = "serving" /\ ~owed /\ ~dirty /\ ~asked => known = tools

=============================================================================
