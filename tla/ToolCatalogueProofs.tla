------------------------ MODULE ToolCatalogueProofs ------------------------
(***************************************************************************)
(* The loader and the registry agree on whose a tool is, a script that is  *)
(* up to date for the loader is the one it loaded, and the client catches  *)
(* up: for any scripts, names and contents.                                *)
(***************************************************************************)
EXTENDS ToolCatalogue, TLAPS

TypeInv ==
    /\ \A n \in DOMAIN index : index[n].file \in Files \cup {Builtin}
    /\ disk \in [Files -> [time : Nat, content : Contents \cup {NoContent}]]
    /\ unused \subseteq Times
    /\ left0 \subseteq Builtins \ Disabled
    /\ phase \in {"boot", "builtins", "serving"}
    /\ rpc \in {"off", "scan", "gone", "load"}
    /\ current \in [Files -> Nat]
    /\ left \subseteq Files
    /\ file \in Files \cup {NoFile}
    /\ drops \in Seq(Names) /\ adds \in Seq(Names)
    /\ defs \in [names : Seq(Names), version : Nat]
    /\ fileTimes \in [Files -> Nat]
    /\ toolNames \in [Files -> Seq(Names)]

\* The index finds a tool under its own name.
NamedInv == \A n \in DOMAIN index : index[n].name = n

\* What the loader holds in each pass of reload().
PassInv ==
    /\ file # NoFile => rpc \in {"gone", "load"} /\ file \in left
    /\ file = NoFile => drops = <<>> /\ adds = <<>> /\ defs = NoDefs
    /\ rpc = "gone" => adds = <<>> /\ defs = NoDefs
    /\ rpc = "load" => \A f \in left : /\ current[f] # 0
                                       /\ fileTimes[f] < current[f]
    /\ drops # <<>> /\ rpc = "load" => adds = defs.names
    /\ NamesIn(adds) \subseteq NamesIn(defs.names)
    /\ phase = "builtins" => rpc = "off"
    /\ rpc = "off" => left = {}

\* A time has one write, so nothing that was read has a time of the future.
FreshInv ==
    \A f \in Files : /\ disk[f].time \notin unused
                     /\ fileTimes[f] \notin unused
                     /\ current[f] \notin unused

\* A script that the scan has seen changed does not change back.
SeenInv ==
    \A f \in Files :
        current[f] # 0 /\ fileTimes[f] # 0 /\ current[f] # fileTimes[f]
            => disk[f].time # fileTimes[f]

\* What was loaded is on disk as long as the time is that of the scan.
LoadedInv ==
    rpc = "load" /\ file # NoFile /\ current[file] = disk[file].time =>
        /\ defs.names = disk[file].content.names
        /\ defs.version = disk[file].time

OwnInv ==
    /\ LoaderOwnsTools
    /\ \A n \in NamesIn(drops) \ clashed : HasTool(n) => index[n].file = file
    /\ drops = <<>> =>
          \A n \in NamesIn(defs.names) \ (NamesIn(adds) \cup clashed) :
              HasTool(n) /\ index[n].file = file

\* The old tools of a script that is being loaded are to go, the others are
\* those it defines now.
VersionInv ==
    rpc = "load" /\ file # NoFile =>
        \A n \in DOMAIN index :
            index[n].file = file =>
                \/ n \in NamesIn(drops)
                \/ index[n].version = defs.version /\ n \in NamesIn(defs.names)

CurrentInv ==
    \A f \in Files :
        fileTimes[f] # 0 /\ fileTimes[f] = disk[f].time =>
            /\ toolNames[f] = disk[f].content.names
            /\ \A n \in DOMAIN index :
                  index[n].file = f =>
                      /\ index[n].version = disk[f].time
                      /\ n \in NamesIn(disk[f].content.names)

\* A list is on its way, or to be asked for, unless nothing has changed.
ClientInv ==
    /\ phase # "serving" => dirty /\ ~asked /\ ~owed
    /\ asked /\ ~dirty /\ ~owed => snap = tools
    /\ ~asked /\ ~dirty /\ ~owed => known = tools

Inv ==
    /\ TypeInv /\ PassInv /\ FreshInv /\ SeenInv /\ LoadedInv
    /\ OwnInv /\ VersionInv /\ CurrentInv

-----------------------------------------------------------------------------
(* Sequences of names and the index.                                       *)

LEMMA TimesAreNumbers == Times \subseteq Nat /\ 0 \notin Times
  <1>1. MaxTime \in Nat
    BY CatalogueAssumption
  <1> QED
    BY <1>1 DEF Times

LEMMA NamesOfTail ==
    ASSUME NEW s \in Seq(Names), s # <<>>
    PROVE  /\ Head(s) \in Names
           /\ Tail(s) \in Seq(Names)
           /\ NamesIn(s) = {Head(s)} \cup NamesIn(Tail(s))
  <1>1. /\ Len(s) \in Nat \ {0}
        /\ DOMAIN s = 1 .. Len(s)
        /\ Head(s) = s[1]
        /\ Tail(s) \in Seq(Names)
        /\ DOMAIN Tail(s) = 1 .. Len(s) - 1
        /\ \A i \in 1 .. Len(s) - 1 : Tail(s)[i] = s[i + 1]
    OBVIOUS
  <1>2. ASSUME NEW i \in DOMAIN s
        PROVE  s[i] = Head(s) \/ s[i] \in NamesIn(Tail(s))
    <2>1. CASE i = 1
      BY <1>1, <2>1
    <2>2. CASE i # 1
      <3>1. i - 1 \in DOMAIN Tail(s) /\ Tail(s)[i - 1] = s[i]
        BY <1>1, <1>2, <2>2
      <3> QED
        BY <3>1 DEF NamesIn
    <2> QED
      BY <2>1, <2>2
  <1>3. ASSUME NEW i \in DOMAIN Tail(s)
        PROVE  Tail(s)[i] \in NamesIn(s)
    <2>1. i + 1 \in DOMAIN s /\ s[i + 1] = Tail(s)[i]
      BY <1>1, <1>3
    <2> QED
      BY <2>1 DEF NamesIn
  <1>4. Head(s) \in NamesIn(s) /\ Head(s) \in Names
    <2>1. 1 \in DOMAIN s
      BY <1>1
    <2> QED
      BY <1>1, <2>1 DEF NamesIn
  <1>5. NamesIn(s) \subseteq {Head(s)} \cup NamesIn(Tail(s))
    BY <1>2 DEF NamesIn
  <1>6. NamesIn(Tail(s)) \subseteq NamesIn(s)
    BY <1>3 DEF NamesIn
  <1> QED
    BY <1>1, <1>4, <1>5, <1>6

LEMMA NamesOfNone == NamesIn(<<>>) = {}
  BY DEF NamesIn

LEMMA NamesOfSome ==
    ASSUME NEW s \in Seq(Names)
    PROVE  NamesIn(s) \subseteq Names
  BY DEF NamesIn

LEMMA Registered ==
    ASSUME NEW t, RegisterOrReplace(t)
    PROVE  /\ DOMAIN index' = DOMAIN index \cup {t.name}
           /\ index'[t.name] = t
           /\ \A n \in DOMAIN index : n # t.name => index'[n] = index[n]
  BY DEF RegisterOrReplace

LEMMA Unregistered ==
    ASSUME NEW n, Unregister(n)
    PROVE  /\ DOMAIN index' = DOMAIN index \ {n}
           /\ \A m \in DOMAIN index' : index'[m] = index[m]
           /\ ~HasTool(n) => tools' = tools
  BY DEF Unregister

-----------------------------------------------------------------------------
(* The initial states, and the types.                                      *)

LEMMA InitInv == Init => Inv
  <1> SUFFICES ASSUME Init PROVE Inv
    OBVIOUS
  <1> USE CatalogueAssumption DEF Init, NoContent, NoDefs, Times
  <1>1. TypeInv
    BY DEF TypeInv
  <1>2. PassInv
    BY DEF PassInv
  <1>3. FreshInv
    BY DEF FreshInv
  <1>4. SeenInv /\ LoadedInv /\ VersionInv /\ CurrentInv
    BY DEF SeenInv, LoadedInv, VersionInv, CurrentInv
  <1>5. OwnInv
    BY NamesOfNone DEF OwnInv, LoaderOwnsTools
  <1> QED
    BY <1>1, <1>2, <1>3, <1>4, <1>5 DEF Inv

LEMMA TypeStep == TypeInv /\ PassInv /\ [Next]_vars => TypeInv'
  <1> SUFFICES ASSUME TypeInv, PassInv, [Next]_vars PROVE TypeInv'
    OBVIOUS
  <1> USE DEF TypeInv
  <1>1. ASSUME NEW f \in Files, NEW c \in Contents, WriteScript(f, c)
        PROVE  TypeInv'
    <2>1. PICK t \in unused :
             disk' = [disk EXCEPT ![f] = [time |-> t, content |-> c]]
      BY <1>1 DEF WriteScript
    <2>2. t \in Nat
      BY <2>1, TimesAreNumbers
    <2>3. [time |-> t, content |-> c]
              \in [time : Nat, content : Contents \cup {NoContent}]
      BY <1>1, <2>2
    <2>4. disk' \in [Files -> [time : Nat, content : Contents \cup {NoContent}]]
      BY <2>1, <2>3
    <2>5. unused' \subseteq Times
      BY <1>1 DEF WriteScript
    <2> QED
      BY <1>1, <2>4, <2>5
      DEF WriteScript, registry, boot, pass, atFile, loader
  <1>2. ASSUME NEW f \in Files, RemoveScript(f)
        PROVE  TypeInv'
    BY <1>2 DEF RemoveScript, registry, boot, pass, atFile, loader
  <1>3. CASE RemoveDirectory
    BY <1>3 DEF RemoveDirectory, registry, boot, pass, atFile, loader
  <1>4. CASE ReloadNothing \/ BeginReload
    BY <1>4 DEF ReloadNothing, BeginReload, Return, registry, scripts, boot,
        pass, atFile, loader
  <1>5. CASE BeginGone \/ BeginLoad \/ EndReload
    BY <1>5 DEF BeginGone, BeginLoad, EndReload, Return, registry, scripts,
        boot, atFile, loader
  <1>6. ASSUME NEW f \in Files, Scan(f) \/ LoadFails(f)
        PROVE  TypeInv'
    <2>1. CASE Scan(f)
      <3>1. disk[f].time \in Nat
        OBVIOUS
      <3>2. current' \in [Files -> Nat]
        BY <2>1, <3>1 DEF Scan
      <3> QED
        BY <2>1, <3>2 DEF Scan, registry, scripts, boot, atFile, loader
    <2>2. CASE LoadFails(f)
      BY <2>2 DEF LoadFails, registry, scripts, boot, atFile, loader
    <2> QED
      BY <1>6, <2>1, <2>2
  <1>7. ASSUME NEW f \in Files, PickGone(f)
        PROVE  TypeInv'
    BY <1>7 DEF PickGone, registry, scripts, boot, pass, loader
  <1>8. ASSUME NEW f \in Files, Load(f)
        PROVE  TypeInv'
    <2>1. disk[f].content.names \in Seq(Names)
      <3>1. disk[f].content \in Contents \cup {NoContent}
        BY <1>8
      <3>2. \A c \in Contents : c.names \in Seq(Names)
        BY CatalogueAssumption
      <3>3. NoContent.names \in Seq(Names)
        BY DEF NoContent
      <3> QED
        BY <3>1, <3>2, <3>3
    <2>2. disk[f].time \in Nat
      BY <1>8
    <2> QED
      BY <1>8, <2>1, <2>2 DEF Load, registry, scripts, boot, pass, loader
  <1>9. CASE Drop
    <2>1. Tail(drops) \in Seq(Names)
      BY <1>9, NamesOfTail DEF Drop
    <2>2. \A n \in DOMAIN index' : index'[n] \in {index[m] : m \in DOMAIN index}
      BY <1>9, Unregistered DEF Drop
    <2> QED
      BY <1>9, <2>1, <2>2 DEF Drop, scripts, boot, pass, loader
  <1>10. CASE Add
    <2>1. PICK t : /\ t = [name |-> Head(adds), file |-> file,
                           version |-> defs.version]
                   /\ RegisterOrReplace(t)
      BY <1>10 DEF Add
    <2>2. Tail(adds) \in Seq(Names)
      BY <1>10, NamesOfTail DEF Add
    <2>3. file \in Files
      BY <1>10 DEF Add, PassInv
    <2>4. \A n \in DOMAIN index' : index'[n].file \in Files \cup {Builtin}
      <3>1. /\ DOMAIN index' = DOMAIN index \cup {t.name}
            /\ index'[t.name] = t
            /\ \A n \in DOMAIN index : n # t.name => index'[n] = index[n]
        BY <2>1, Registered
      <3>2. t.file \in Files
        BY <2>1, <2>3
      <3> QED
        BY <3>1, <3>2
    <2> QED
      BY <1>10, <2>2, <2>4 DEF Add, scripts, boot, pass, loader
  <1>11. CASE Notify
    BY <1>11 DEF Notify, registry, scripts, boot, pass, atFile, loader
  <1>12. CASE Forget \/ Remember
    <2>1. FileDone
      BY <1>12 DEF Forget, Remember
    <2>2. /\ fileTimes' \in [Files -> Nat]
          /\ toolNames' \in [Files -> Seq(Names)]
      <3>1. CASE Forget
        <4>1. <<>> \in Seq(Names) /\ 0 \in Nat
          OBVIOUS
        <4> QED
          BY <3>1, <4>1 DEF Forget
      <3>2. CASE Remember
        <4>1. /\ defs.names \in Seq(Names)
              /\ file \in Files
              /\ current[file] \in Nat
          BY <2>1 DEF FileDone
        <4> QED
          BY <3>2, <4>1 DEF Remember
      <3> QED
        BY <1>12, <3>1, <3>2
    <2>3. NoDefs \in [names : Seq(Names), version : Nat]
      BY DEF NoDefs
    <2> QED
      BY <2>1, <2>2, <2>3 DEF FileDone, registry, scripts, boot
  <1>13. ASSUME NEW n \in Builtins, RegisterBuiltin(n)
         PROVE  TypeInv'
    <2>1. PICK t : /\ t = [name |-> n, file |-> Builtin, version |-> 0]
                   /\ RegisterOrReplace(t)
      BY <1>13 DEF RegisterBuiltin
    <2>2. \A m \in DOMAIN index' : index'[m].file \in Files \cup {Builtin}
      <3>1. /\ DOMAIN index' = DOMAIN index \cup {t.name}
            /\ index'[t.name] = t
            /\ \A m \in DOMAIN index : m # t.name => index'[m] = index[m]
        BY <2>1, Registered
      <3>2. t.file = Builtin
        BY <2>1
      <3> QED
        BY <3>1, <3>2
    <2> QED
      BY <1>13, <2>2 DEF RegisterBuiltin, scripts, pass, atFile, loader
  <1>14. CASE Serve
    BY <1>14 DEF Serve, registry, scripts, pass, atFile, loader
  <1>15. CASE Snapshot \/ SendList
    BY <1>15 DEF Snapshot, SendList, registry, scripts, boot, pass, atFile, loader
  <1>16. CASE UNCHANGED vars
    BY <1>16 DEF vars, registry, scripts, boot, pass, atFile, loader
  <1> QED
    BY <1>1, <1>2, <1>3, <1>4, <1>5, <1>6, <1>7, <1>8, <1>9, <1>10, <1>11,
       <1>12, <1>13, <1>14, <1>15, <1>16 DEF Next, DiskEvent, ReloadStep

LEMMA PassStep == TypeInv /\ PassInv /\ [Next]_vars => PassInv'
  <1> SUFFICES ASSUME TypeInv, PassInv, [Next]_vars PROVE PassInv'
    OBVIOUS
  <1> USE DEF PassInv
  <1>1. CASE DiskEvent
    BY <1>1 DEF DiskEvent, WriteScript, RemoveScript, RemoveDirectory,
        boot, pass, atFile, loader
  <1>2. CASE ReloadNothing \/ BeginReload
    BY <1>2 DEF ReloadNothing, BeginReload, Return, MayReload, boot, atFile,
        loader
  <1>3. CASE BeginGone
    BY <1>3 DEF BeginGone, boot, atFile, loader
  <1>4. CASE BeginLoad
    <2>1. \A f \in Files : fileTimes[f] \in Nat /\ current[f] \in Nat
      BY DEF TypeInv
    <2>2. \A f \in left' : current[f] # 0 /\ fileTimes[f] < current[f]
      BY <1>4, <2>1 DEF BeginLoad, IsNew, IsModified
    <2> QED
      BY <1>4, <2>2 DEF BeginLoad, boot, atFile, loader
  <1>5. CASE EndReload
    BY <1>5 DEF EndReload, Return, atFile, loader
  <1>6. ASSUME NEW f \in Files, Scan(f) \/ LoadFails(f)
        PROVE  PassInv'
    BY <1>6 DEF Scan, LoadFails, boot, atFile, loader
  <1>7. ASSUME NEW f \in Files, PickGone(f)
        PROVE  PassInv'
    BY <1>7, CatalogueAssumption DEF PickGone, boot, pass, loader
  <1>8. ASSUME NEW f \in Files, Load(f)
        PROVE  PassInv'
    BY <1>8, CatalogueAssumption DEF Load, boot, pass, loader
  <1>9. CASE Drop
    BY <1>9 DEF Drop, boot, pass, loader
  <1>10. CASE Add
    <2>1. NamesIn(adds') \subseteq NamesIn(adds)
      BY <1>10, NamesOfTail DEF Add, TypeInv
    <2> QED
      BY <1>10, <2>1 DEF Add, boot, pass, loader
  <1>11. CASE Notify
    BY <1>11 DEF Notify, boot, pass, atFile, loader
  <1>12. CASE Forget \/ Remember
    <2>1. FileDone
      BY <1>12 DEF Forget, Remember
    <2>2. \A f \in Files \ {file} : fileTimes'[f] = fileTimes[f]
      BY <1>12 DEF Forget, Remember, TypeInv
    <2>3. NamesIn(adds') = {}
      BY <2>1, NamesOfNone DEF FileDone
    <2>4. \A f \in left' : f \in left /\ f \in Files \ {file}
      BY <2>1 DEF FileDone, TypeInv
    <2>5. rpc' = "load" =>
             \A f \in left' : current'[f] # 0 /\ fileTimes'[f] < current'[f]
      BY <2>1, <2>2, <2>4 DEF FileDone
    <2> QED
      BY <2>1, <2>3, <2>5 DEF FileDone, boot
  <1>13. ASSUME NEW n \in Builtins, RegisterBuiltin(n)
         PROVE  PassInv'
    BY <1>13 DEF RegisterBuiltin, pass, atFile, loader
  <1>14. CASE Serve
    BY <1>14 DEF Serve, pass, atFile, loader
  <1>15. CASE Snapshot \/ SendList
    BY <1>15 DEF Snapshot, SendList, boot, pass, atFile, loader
  <1>16. CASE UNCHANGED vars
    BY <1>16 DEF vars, boot, pass, atFile, loader
  <1> QED
    BY <1>1, <1>2, <1>3, <1>4, <1>5, <1>6, <1>7, <1>8, <1>9, <1>10, <1>11,
       <1>12, <1>13, <1>14, <1>15, <1>16 DEF Next, ReloadStep

-----------------------------------------------------------------------------
(* The steps that concern the disk and the loader's times, and those that  *)
(* leave both alone.                                                       *)

LEMMA OtherSteps ==
    ASSUME [Next]_vars,
           ~DiskEvent, ~ReloadNothing, ~BeginReload,
           \A f \in Files : ~Scan(f), ~BeginLoad, ~EndReload, ~Forget, ~Remember
    PROVE  disk' = disk /\ unused' = unused /\ current' = current
           /\ fileTimes' = fileTimes /\ toolNames' = toolNames
  BY DEF Next, ReloadStep, BeginGone, PickGone, Load, LoadFails, Drop, Add,
      Notify, RegisterBuiltin, Serve, Snapshot, SendList, vars, registry,
      scripts, pass, loader

LEMMA FreshStep ==
    TypeInv /\ PassInv /\ FreshInv /\ [Next]_vars => FreshInv'
  <1> SUFFICES ASSUME TypeInv, PassInv, FreshInv, [Next]_vars PROVE FreshInv'
    OBVIOUS
  <1> USE DEF FreshInv
  <1>0. 0 \notin unused
    BY TimesAreNumbers DEF TypeInv
  <1>1. ASSUME NEW f \in Files, NEW c \in Contents, WriteScript(f, c)
        PROVE  FreshInv'
    <2>1. PICK t \in unused :
             /\ disk' = [disk EXCEPT ![f] = [time |-> t, content |-> c]]
             /\ unused' = unused \ {t}
      BY <1>1 DEF WriteScript
    <2>2. \A g \in Files : disk'[g].time \in {disk[g].time, t}
      BY <2>1 DEF TypeInv
    <2> QED
      BY <1>1, <2>1, <2>2 DEF WriteScript, pass, loader
  <1>2. ASSUME NEW f \in Files, RemoveScript(f)
        PROVE  FreshInv'
    <2>1. \A g \in Files : disk'[g].time \in {disk[g].time, 0}
      BY <1>2 DEF RemoveScript, TypeInv
    <2> QED
      BY <1>0, <1>2, <2>1 DEF RemoveScript, pass, loader
  <1>3. CASE RemoveDirectory
    BY <1>0, <1>3 DEF RemoveDirectory, pass, loader
  <1>4. CASE ReloadNothing \/ BeginReload \/ BeginLoad
    BY <1>4 DEF ReloadNothing, BeginReload, BeginLoad, scripts, loader
  <1>5. CASE EndReload
    BY <1>0, <1>5 DEF EndReload, scripts, loader
  <1>6. ASSUME NEW f \in Files, Scan(f)
        PROVE  FreshInv'
    <2>1. \A g \in Files : current'[g] \in {current[g], disk[g].time, 0}
      BY <1>6 DEF Scan, TypeInv
    <2> QED
      BY <1>0, <1>6, <2>1 DEF Scan, scripts, loader
  <1>7. CASE Forget \/ Remember
    <2>1. \A g \in Files : fileTimes'[g] \in {fileTimes[g], current[g], 0}
      BY <1>7 DEF Forget, Remember, TypeInv
    <2> QED
      BY <1>0, <1>7, <2>1 DEF Forget, Remember, FileDone, scripts
  <1> QED
    BY <1>1, <1>2, <1>3, <1>4, <1>5, <1>6, <1>7, OtherSteps DEF DiskEvent

LEMMA SeenStep ==
    TypeInv /\ PassInv /\ FreshInv /\ SeenInv /\ [Next]_vars => SeenInv'
  <1> SUFFICES ASSUME TypeInv, PassInv, FreshInv, SeenInv, [Next]_vars
               PROVE  SeenInv'
    OBVIOUS
  <1> USE DEF SeenInv
  <1>1. ASSUME NEW f \in Files, NEW c \in Contents, WriteScript(f, c)
        PROVE  SeenInv'
    <2>1. PICK t \in unused :
             disk' = [disk EXCEPT ![f] = [time |-> t, content |-> c]]
      BY <1>1 DEF WriteScript
    <2>2. \A g \in Files : disk'[g].time \in {disk[g].time, t}
      BY <2>1 DEF TypeInv
    <2> QED
      BY <1>1, <2>2 DEF WriteScript, FreshInv, pass, loader
  <1>2. ASSUME NEW f \in Files, RemoveScript(f)
        PROVE  SeenInv'
    <2>1. \A g \in Files : disk'[g].time \in {disk[g].time, 0}
      BY <1>2 DEF RemoveScript, TypeInv
    <2> QED
      BY <1>2, <2>1 DEF RemoveScript, pass, loader
  <1>3. CASE RemoveDirectory
    BY <1>3 DEF RemoveDirectory, pass, loader
  <1>4. CASE ReloadNothing \/ BeginReload \/ BeginLoad
    BY <1>4 DEF ReloadNothing, BeginReload, BeginLoad, scripts, loader
  <1>5. CASE EndReload
    BY <1>5 DEF EndReload
  <1>6. ASSUME NEW f \in Files, Scan(f)
        PROVE  SeenInv'
    <2>1. \A g \in Files : \/ current'[g] = current[g]
                           \/ current'[g] \in {disk[g].time, 0}
      BY <1>6 DEF Scan, TypeInv
    <2> QED
      BY <1>6, <2>1 DEF Scan, scripts, loader
  <1>7. CASE Forget \/ Remember
    <2>1. \A g \in Files : fileTimes'[g] \in {fileTimes[g], current[g], 0}
      BY <1>7 DEF Forget, Remember, TypeInv
    <2> QED
      BY <1>7, <2>1 DEF Forget, Remember, FileDone, scripts
  <1> QED
    BY <1>1, <1>2, <1>3, <1>4, <1>5, <1>6, <1>7, OtherSteps DEF DiskEvent

LEMMA LoadedStep ==
    TypeInv /\ PassInv /\ FreshInv /\ LoadedInv /\ [Next]_vars => LoadedInv'
  <1> SUFFICES ASSUME TypeInv, PassInv, FreshInv, LoadedInv, [Next]_vars
               PROVE  LoadedInv'
    OBVIOUS
  <1> USE DEF LoadedInv
  <1>1. ASSUME NEW f \in Files, NEW c \in Contents, WriteScript(f, c)
        PROVE  LoadedInv'
    <2>1. PICK t \in unused :
             disk' = [disk EXCEPT ![f] = [time |-> t, content |-> c]]
      BY <1>1 DEF WriteScript
    <2>2. \A g \in Files : disk'[g] = disk[g] \/ disk'[g].time = t
      BY <2>1 DEF TypeInv
    <2>3. file # NoFile => file \in Files
      BY DEF TypeInv
    <2> QED
      BY <1>1, <2>1, <2>2, <2>3 DEF WriteScript, FreshInv, pass, atFile
  <1>2. ASSUME NEW f \in Files, RemoveScript(f)
        PROVE  LoadedInv'
    <2>1. \A g \in Files : disk'[g] = disk[g] \/ disk'[g].time = 0
      BY <1>2 DEF RemoveScript, TypeInv
    <2>2. file # NoFile => file \in Files
      BY DEF TypeInv
    <2> QED
      BY <1>2, <2>1, <2>2 DEF RemoveScript, PassInv, pass, atFile
  <1>3. CASE RemoveDirectory
    <2>1. file # NoFile => file \in Files
      BY DEF TypeInv
    <2> QED
      BY <1>3, <2>1 DEF RemoveDirectory, PassInv, pass, atFile
  <1>4. ASSUME NEW f \in Files, Load(f)
        PROVE  LoadedInv'
    BY <1>4 DEF Load, scripts
  <1>5. CASE \/ ReloadNothing \/ BeginReload \/ BeginGone \/ BeginLoad
             \/ EndReload
    BY <1>5 DEF ReloadNothing, BeginReload, BeginGone, BeginLoad, EndReload,
        Return, PassInv, atFile
  <1>6. ASSUME NEW f \in Files, Scan(f) \/ PickGone(f) \/ LoadFails(f)
        PROVE  LoadedInv'
    BY <1>6 DEF Scan, PickGone, LoadFails, atFile, scripts, pass
  <1>7. CASE Drop \/ Add \/ Notify
    BY <1>7 DEF Drop, Add, Notify, atFile, scripts, pass
  <1>8. CASE Forget \/ Remember
    BY <1>8 DEF Forget, Remember, FileDone
  <1>9. CASE Serve \/ Snapshot \/ SendList
    BY <1>9 DEF Serve, Snapshot, SendList, scripts, pass, atFile
  <1>10. ASSUME NEW n \in Builtins, RegisterBuiltin(n)
         PROVE  LoadedInv'
    BY <1>10 DEF RegisterBuiltin, scripts, pass, atFile
  <1>11. CASE UNCHANGED vars
    BY <1>11 DEF vars, scripts, pass, atFile
  <1> QED
    BY <1>1, <1>2, <1>3, <1>4, <1>5, <1>6, <1>7, <1>8, <1>9, <1>10, <1>11
    DEF Next, DiskEvent, ReloadStep

-----------------------------------------------------------------------------
(* Whose a tool is.                                                        *)

LEMMA OwnStep ==
    TypeInv /\ PassInv /\ OwnInv /\ [Next]_vars => OwnInv'
  <1> SUFFICES ASSUME TypeInv, PassInv, OwnInv, [Next]_vars
               PROVE  OwnInv'
    OBVIOUS
  <1>0. Builtin \notin Files \cup {NoFile} /\ NoFile \notin Files
    BY CatalogueAssumption
  <1> USE <1>0 DEF OwnInv, LoaderOwnsTools, HasTool
  <1>1. ASSUME NEW f \in Files, PickGone(f)
        PROVE  OwnInv'
    <2>1. /\ file = NoFile /\ file' = f /\ f # NoFile
          /\ drops' = toolNames[f]
          /\ index' = index /\ toolNames' = toolNames /\ clashed' = clashed
      BY <1>1 DEF PickGone, registry, loader
    <2>2. /\ NamesIn(drops) = {} /\ NamesIn(defs.names) = {}
          /\ NamesIn(defs'.names) = {}
      BY <1>1, <2>1, NamesOfNone DEF PickGone, PassInv, NoDefs
    <2>3. ASSUME NEW n \in DOMAIN index
          PROVE  \/ index[n].file = Builtin /\ n \in Builtins \ Disabled
                 \/ /\ index[n].file \in Files
                    /\ n \in NamesIn(toolNames[index[n].file])
      BY <2>1, <2>2
    <2>4. \A n \in NamesIn(toolNames[f]) \ clashed :
             n \in DOMAIN index /\ index[n].file = f
      BY <2>1
    <2>5. LoaderOwnsTools'
      BY <2>1, <2>2, <2>3
    <2> QED
      BY <2>1, <2>2, <2>4, <2>5
  <1>2. ASSUME NEW f \in Files, Load(f)
        PROVE  OwnInv'
    <2>1. /\ file = NoFile /\ file' = f /\ f # NoFile
          /\ drops' = toolNames[f]
          /\ adds' = defs'.names
          /\ index' = index /\ toolNames' = toolNames /\ clashed' = clashed
      BY <1>2 DEF Load, registry, loader
    <2>2. /\ NamesIn(drops) = {} /\ NamesIn(defs.names) = {}
          /\ NamesIn(adds') = NamesIn(defs'.names)
      BY <2>1, NamesOfNone DEF PassInv, NoDefs
    <2>3. ASSUME NEW n \in DOMAIN index
          PROVE  \/ index[n].file = Builtin /\ n \in Builtins \ Disabled
                 \/ /\ index[n].file \in Files
                    /\ n \in NamesIn(toolNames[index[n].file])
      BY <2>1, <2>2
    <2>4. \A n \in NamesIn(toolNames[f]) \ clashed :
             n \in DOMAIN index /\ index[n].file = f
      BY <2>1
    <2>5. LoaderOwnsTools'
      BY <2>1, <2>2, <2>3
    <2> QED
      BY <2>1, <2>2, <2>4, <2>5
  <1>3. CASE Drop
    <2> DEFINE h == Head(drops)
    <2>1. /\ NamesIn(drops) = {h} \cup NamesIn(drops')
          /\ DOMAIN index' = DOMAIN index \ {h}
          /\ \A m \in DOMAIN index' : index'[m] = index[m]
      BY <1>3, NamesOfTail, Unregistered DEF Drop, TypeInv
    <2>2. /\ file' = file /\ adds' = adds /\ defs' = defs
          /\ toolNames' = toolNames /\ clashed' = clashed
      BY <1>3 DEF Drop, loader
    <2>3. file \in Files /\ rpc \in {"gone", "load"}
      BY <1>3 DEF Drop, PassInv, TypeInv
    <2>4. NamesIn(defs.names) \subseteq NamesIn(adds)
      BY <1>3, <2>3, NamesOfNone DEF Drop, PassInv, NoDefs
    <2>5. ASSUME NEW f \in Files \ {file}, NEW n \in NamesIn(toolNames[f]) \ clashed
          PROVE  n \in DOMAIN index' /\ index'[n].file = f
      <3>1. n \in DOMAIN index /\ index[n].file = f
        BY <2>5
      <3>2. n # h
        BY <2>1, <2>5, <3>1
      <3> QED
        BY <2>1, <3>1, <3>2
    <2>6. ASSUME NEW n \in DOMAIN index', index'[n].file = file
          PROVE  n \in NamesIn(drops') \cup NamesIn(defs.names)
      BY <2>1, <2>3, <2>6
    <2>7. LoaderOwnsTools'
      BY <2>1, <2>2, <2>5, <2>6
    <2> QED
      BY <2>1, <2>2, <2>4, <2>7
  <1>4. CASE Add
    <2> DEFINE h == Head(adds)
    <2>1. PICK t : /\ t = [name |-> h, file |-> file, version |-> defs.version]
                   /\ RegisterOrReplace(t)
                   /\ clashed' = IF Clashes(t) THEN clashed \cup {t.name}
                                 ELSE clashed
      BY <1>4 DEF Add
    <2>2. t.name = h /\ t.file = file
      BY <2>1
    <2>3. /\ DOMAIN index' = DOMAIN index \cup {h}
          /\ index'[h] = t
          /\ \A n \in DOMAIN index : n # h => index'[n] = index[n]
      <3>1. RegisterOrReplace(t)
        BY <2>1
      <3>2. /\ DOMAIN index' = DOMAIN index \cup {t.name}
            /\ index'[t.name] = t
            /\ \A n \in DOMAIN index : n # t.name => index'[n] = index[n]
        BY ONLY <3>1, Registered
      <3> HIDE DEF h
      <3> QED
        BY <2>2, <3>2
    <2>4. NamesIn(adds) = {h} \cup NamesIn(adds')
      BY <1>4, NamesOfTail DEF Add, TypeInv
    <2>5. /\ file' = file /\ drops' = drops /\ drops = <<>> /\ defs' = defs
          /\ toolNames' = toolNames /\ NamesIn(drops) = {}
      BY <1>4, NamesOfNone DEF Add, loader
    <2>6. file \in Files /\ h \in NamesIn(defs.names)
      BY <1>4, <2>4 DEF Add, PassInv, TypeInv
    <2>7. /\ clashed \subseteq clashed'
          /\ h \in DOMAIN index /\ index[h].file # file => h \in clashed'
      BY <2>1, <2>2 DEF Clashes
    <2>8. ASSUME NEW f \in Files \ {file},
                 NEW n \in NamesIn(toolNames[f]) \ clashed'
          PROVE  n \in DOMAIN index' /\ index'[n].file = f
      <3>1. n \in DOMAIN index /\ index[n].file = f
        BY <2>7, <2>8
      <3>2. n # h
        BY <2>7, <2>8, <3>1
      <3> QED
        BY <2>3, <3>1, <3>2
    <2>9. ASSUME NEW n \in DOMAIN index'
          PROVE  \/ index'[n].file = Builtin /\ n \in Builtins \ Disabled
                 \/ /\ index'[n].file = file
                    /\ n \in NamesIn(drops) \cup NamesIn(defs.names)
                 \/ /\ index'[n].file \in Files \ {file}
                    /\ n \in NamesIn(toolNames[index'[n].file])
      <3>1. CASE n = h
        BY <2>2, <2>3, <2>6, <3>1
      <3>2. CASE n # h
        BY <2>3, <3>2
      <3> QED
        BY <3>1, <3>2
    <2>10. LoaderOwnsTools'
      BY <2>5, <2>8, <2>9
    <2>11. ASSUME NEW n \in NamesIn(defs.names) \ (NamesIn(adds') \cup clashed')
           PROVE  n \in DOMAIN index' /\ index'[n].file = file
      <3>1. CASE n = h
        BY <2>2, <2>3, <3>1
      <3>2. CASE n # h
        BY <2>3, <2>4, <2>5, <2>7, <2>11, <3>2
      <3> QED
        BY <3>1, <3>2
    <2> QED
      BY <2>5, <2>10, <2>11
  <1>5. CASE Forget \/ Remember
    <2>1. /\ file \in Files /\ drops = <<>> /\ adds = <<>>
          /\ NamesIn(drops) = {} /\ NamesIn(adds) = {}
          /\ file' = NoFile /\ drops' = <<>> /\ adds' = <<>>
          /\ NamesIn(drops') = {} /\ NamesIn(defs'.names) = {}
          /\ index' = index /\ clashed' = clashed
      BY <1>5, NamesOfNone
      DEF Forget, Remember, FileDone, TypeInv, registry, NoDefs
    <2>2. NamesIn(toolNames'[file]) = NamesIn(defs.names)
      BY <1>5, <2>1 DEF Forget, Remember, TypeInv, PassInv, NoDefs
    <2>3. \A f \in Files \ {file} : toolNames'[f] = toolNames[f]
      BY <1>5 DEF Forget, Remember, TypeInv
    <2>4. ASSUME NEW f \in Files, NEW n \in NamesIn(toolNames'[f]) \ clashed
          PROVE  n \in DOMAIN index /\ index[n].file = f
      BY <2>1, <2>2, <2>3, <2>4
    <2>5. ASSUME NEW n \in DOMAIN index
          PROVE  \/ index[n].file = Builtin /\ n \in Builtins \ Disabled
                 \/ /\ index[n].file \in Files
                    /\ n \in NamesIn(toolNames'[index[n].file])
      BY <2>1, <2>2, <2>3
    <2>6. NoFile \notin Files
      OBVIOUS
    <2> QED
      BY <2>1, <2>4, <2>5, <2>6
  <1>6. ASSUME NEW m \in Builtins, RegisterBuiltin(m)
        PROVE  OwnInv'
    <2>1. PICK t : /\ t = [name |-> m, file |-> Builtin, version |-> 0]
                   /\ RegisterOrReplace(t)
                   /\ clashed' = IF Clashes(t) THEN clashed \cup {m}
                                 ELSE clashed
      BY <1>6 DEF RegisterBuiltin
    <2>2. t.name = m /\ t.file = Builtin
      BY <2>1
    <2>3. /\ DOMAIN index' = DOMAIN index \cup {m}
          /\ index'[m] = t
          /\ \A n \in DOMAIN index : n # m => index'[n] = index[n]
      <3>1. RegisterOrReplace(t)
        BY <2>1
      <3>2. /\ DOMAIN index' = DOMAIN index \cup {t.name}
            /\ index'[t.name] = t
            /\ \A n \in DOMAIN index : n # t.name => index'[n] = index[n]
        BY ONLY <3>1, Registered
      <3> QED
        BY <2>2, <3>2
    <2>4. /\ file' = NoFile /\ file = NoFile
          /\ drops' = <<>> /\ drops = <<>> /\ defs' = defs /\ defs = NoDefs
          /\ toolNames' = toolNames
          /\ NamesIn(drops) = {} /\ NamesIn(defs.names) = {}
      BY <1>6, NamesOfNone DEF RegisterBuiltin, PassInv, NoDefs, atFile, loader
    <2>5. /\ clashed \subseteq clashed'
          /\ m \in DOMAIN index /\ index[m].file # Builtin => m \in clashed'
      BY <2>1, <2>2 DEF Clashes
    <2>6. ASSUME NEW f \in Files, NEW n \in NamesIn(toolNames[f]) \ clashed'
          PROVE  n \in DOMAIN index' /\ index'[n].file = f
      <3>1. n \in DOMAIN index /\ index[n].file = f
        BY <2>4, <2>5, <2>6
      <3>2. n # m
        BY <2>5, <2>6, <3>1
      <3> QED
        BY <2>3, <3>1, <3>2
    <2>7. m \in Builtins \ Disabled
      BY <1>6 DEF RegisterBuiltin, TypeInv
    <2>8. ASSUME NEW n \in DOMAIN index'
          PROVE  \/ index'[n].file = Builtin /\ n \in Builtins \ Disabled
                 \/ /\ index'[n].file \in Files
                    /\ n \in NamesIn(toolNames[index'[n].file])
      <3>1. CASE n = m
        BY <2>2, <2>3, <2>7, <3>1
      <3>2. CASE n # m
        BY <2>3, <2>4, <3>2
      <3> QED
        BY <3>1, <3>2
    <2> QED
      BY <2>4, <2>6, <2>8
  <1>7. CASE DiskEvent \/ ReloadNothing \/ BeginReload
    BY <1>7 DEF DiskEvent, WriteScript, RemoveScript, RemoveDirectory,
        ReloadNothing, BeginReload, registry, atFile, loader
  <1>8. CASE BeginGone \/ BeginLoad \/ EndReload \/ Notify
    BY <1>8 DEF BeginGone, BeginLoad, EndReload, Notify, registry, atFile,
        loader
  <1>9. ASSUME NEW f \in Files, Scan(f) \/ LoadFails(f)
        PROVE  OwnInv'
    BY <1>9 DEF Scan, LoadFails, registry, atFile, loader
  <1>10. CASE Serve \/ Snapshot \/ SendList
    BY <1>10 DEF Serve, Snapshot, SendList, registry, atFile, loader
  <1>11. CASE UNCHANGED vars
    BY <1>11 DEF vars, registry, atFile, loader
  <1> QED
    BY <1>1, <1>2, <1>3, <1>4, <1>5, <1>6, <1>7, <1>8, <1>9, <1>10, <1>11
    DEF Next, ReloadStep

-----------------------------------------------------------------------------
(* The versions of the tools.                                              *)

LEMMA VersionStep ==
    TypeInv /\ PassInv /\ OwnInv /\ VersionInv /\ [Next]_vars => VersionInv'
  <1> SUFFICES ASSUME TypeInv, PassInv, OwnInv, VersionInv, [Next]_vars
               PROVE  VersionInv'
    OBVIOUS
  <1>0. Builtin \notin Files \cup {NoFile} /\ NoFile \notin Files
    BY CatalogueAssumption
  <1> USE <1>0 DEF VersionInv
  <1>1. ASSUME NEW f \in Files, Load(f)
        PROVE  VersionInv'
    <2>1. /\ file = NoFile /\ file' = f /\ index' = index
          /\ drops' = toolNames[f]
      BY <1>1 DEF Load, registry
    <2> QED
      BY <2>1 DEF OwnInv, LoaderOwnsTools
  <1>2. CASE Drop
    <2> DEFINE h == Head(drops)
    <2>1. /\ NamesIn(drops) = {h} \cup NamesIn(drops')
          /\ DOMAIN index' = DOMAIN index \ {h}
          /\ \A m \in DOMAIN index' : index'[m] = index[m]
      BY <1>2, NamesOfTail, Unregistered DEF Drop, TypeInv
    <2>2. /\ file' = file /\ defs' = defs /\ rpc' = rpc
      BY <1>2 DEF Drop, pass
    <2> QED
      BY <2>1, <2>2
  <1>3. CASE Add
    <2> DEFINE h == Head(adds)
    <2>1. PICK t : /\ t = [name |-> h, file |-> file, version |-> defs.version]
                   /\ RegisterOrReplace(t)
      BY <1>3 DEF Add
    <2>2. t.name = h /\ t.version = defs.version
      BY <2>1
    <2>3. RegisterOrReplace(t)
      BY <2>1
    <2>4. /\ DOMAIN index' = DOMAIN index \cup {t.name}
          /\ index'[t.name] = t
          /\ \A n \in DOMAIN index : n # t.name => index'[n] = index[n]
      BY ONLY <2>3, Registered
    <2>5. /\ file' = file /\ drops' = drops /\ defs' = defs /\ rpc' = rpc
      BY <1>3 DEF Add, pass
    <2>6. h \in NamesIn(defs.names)
      BY <1>3, NamesOfTail DEF Add, PassInv, TypeInv
    <2> QED
      BY <2>2, <2>4, <2>5, <2>6
  <1>4. ASSUME NEW m \in Builtins, RegisterBuiltin(m)
        PROVE  VersionInv'
    BY <1>4 DEF RegisterBuiltin, PassInv, pass, atFile
  <1>5. CASE \/ ReloadNothing \/ BeginReload \/ BeginGone \/ BeginLoad
             \/ EndReload
    BY <1>5 DEF ReloadNothing, BeginReload, BeginGone, BeginLoad, EndReload,
        Return, PassInv, atFile
  <1>6. ASSUME NEW f \in Files, Scan(f) \/ PickGone(f) \/ LoadFails(f)
        PROVE  VersionInv'
    BY <1>6 DEF Scan, PickGone, LoadFails, registry, atFile, pass
  <1>7. CASE Forget \/ Remember
    BY <1>7 DEF Forget, Remember, FileDone
  <1>8. CASE DiskEvent
    BY <1>8 DEF DiskEvent, WriteScript, RemoveScript, RemoveDirectory,
        registry, pass, atFile
  <1>9. CASE Notify \/ Serve \/ Snapshot \/ SendList
    BY <1>9 DEF Notify, Serve, Snapshot, SendList, registry, pass, atFile
  <1>10. CASE UNCHANGED vars
    BY <1>10 DEF vars, registry, pass, atFile
  <1> QED
    BY <1>1, <1>2, <1>3, <1>4, <1>5, <1>6, <1>7, <1>8, <1>9, <1>10
    DEF Next, ReloadStep

LEMMA CurrentStep == Inv /\ [Next]_vars => CurrentInv'
  <1> SUFFICES ASSUME Inv, [Next]_vars
               PROVE  CurrentInv'
    OBVIOUS
  <1>0. Builtin \notin Files \cup {NoFile} /\ NoFile \notin Files
    BY CatalogueAssumption
  <1> USE <1>0 DEF Inv, CurrentInv
  <1>1. ASSUME NEW f \in Files, NEW c \in Contents, WriteScript(f, c)
        PROVE  CurrentInv'
    <2>1. PICK t \in unused :
             disk' = [disk EXCEPT ![f] = [time |-> t, content |-> c]]
      BY <1>1 DEF WriteScript
    <2>2. \A g \in Files : disk'[g] = disk[g] \/ disk'[g].time = t
      BY <2>1 DEF TypeInv
    <2>3. fileTimes' = fileTimes /\ toolNames' = toolNames /\ index' = index
      BY <1>1 DEF WriteScript, loader, registry
    <2>4. \A g \in Files : fileTimes[g] # t
      BY <2>1 DEF FreshInv
    <2> QED
      BY <2>2, <2>3, <2>4
  <1>2. ASSUME NEW f \in Files, RemoveScript(f)
        PROVE  CurrentInv'
    <2>1. \A g \in Files : disk'[g] = disk[g] \/ disk'[g].time = 0
      BY <1>2 DEF RemoveScript, TypeInv
    <2>2. fileTimes' = fileTimes /\ toolNames' = toolNames /\ index' = index
      BY <1>2 DEF RemoveScript, loader, registry
    <2> QED
      BY <2>1, <2>2
  <1>3. CASE RemoveDirectory
    <2>1. \A g \in Files : disk'[g].time = 0
      BY <1>3 DEF RemoveDirectory
    <2>2. fileTimes' = fileTimes
      BY <1>3 DEF RemoveDirectory, loader
    <2> QED
      BY <2>1, <2>2
  <1>4. CASE Drop
    <2>1. /\ DOMAIN index' \subseteq DOMAIN index
          /\ \A m \in DOMAIN index' : index'[m] = index[m]
      BY <1>4, Unregistered DEF Drop
    <2>2. disk' = disk /\ fileTimes' = fileTimes /\ toolNames' = toolNames
      BY <1>4 DEF Drop, scripts, loader
    <2> QED
      BY <2>1, <2>2
  <1>5. CASE Add
    <2> DEFINE h == Head(adds)
    <2>1. PICK t : /\ t = [name |-> h, file |-> file, version |-> defs.version]
                   /\ RegisterOrReplace(t)
      BY <1>5 DEF Add
    <2>2. t.file = file
      BY <2>1
    <2>3. RegisterOrReplace(t)
      BY <2>1
    <2>4. /\ DOMAIN index' = DOMAIN index \cup {t.name}
          /\ index'[t.name] = t
          /\ \A n \in DOMAIN index : n # t.name => index'[n] = index[n]
      BY ONLY <2>3, Registered
    <2>5. disk' = disk /\ fileTimes' = fileTimes /\ toolNames' = toolNames
      BY <1>5 DEF Add, scripts, loader
    <2>6. file \in Files /\ file \in left /\ rpc = "load"
      BY <1>5 DEF Add, PassInv, TypeInv
    <2>7. current[file] # 0 /\ current[file] # fileTimes[file]
      BY <2>6 DEF PassInv, TypeInv
    <2>8. fileTimes[file] # 0 => disk[file].time # fileTimes[file]
      BY <2>6, <2>7 DEF SeenInv
    <2> QED
      BY <2>2, <2>4, <2>5, <2>6, <2>8
  <1>6. ASSUME NEW m \in Builtins, RegisterBuiltin(m)
        PROVE  CurrentInv'
    <2>1. PICK t : /\ t = [name |-> m, file |-> Builtin, version |-> 0]
                   /\ RegisterOrReplace(t)
      BY <1>6 DEF RegisterBuiltin
    <2>2. t.file = Builtin
      BY <2>1
    <2>3. RegisterOrReplace(t)
      BY <2>1
    <2>4. /\ DOMAIN index' = DOMAIN index \cup {t.name}
          /\ index'[t.name] = t
          /\ \A n \in DOMAIN index : n # t.name => index'[n] = index[n]
      BY ONLY <2>3, Registered
    <2>5. disk' = disk /\ fileTimes' = fileTimes /\ toolNames' = toolNames
      BY <1>6 DEF RegisterBuiltin, scripts, loader
    <2> QED
      BY <2>2, <2>4, <2>5
  <1>7. CASE Forget
    <2>1. /\ fileTimes'[file] = 0 /\ index' = index /\ disk' = disk
          /\ \A f \in Files \ {file} : /\ fileTimes'[f] = fileTimes[f]
                                       /\ toolNames'[f] = toolNames[f]
      BY <1>7 DEF Forget, FileDone, TypeInv, scripts, registry
    <2> QED
      BY <2>1
  <1>8. CASE Remember
    <2>1. file \in Files /\ NamesIn(drops) = {} /\ rpc = "load"
      BY <1>8, NamesOfNone DEF Remember, FileDone, TypeInv
    <2>2. /\ fileTimes'[file] = current[file] /\ toolNames'[file] = defs.names
          /\ index' = index /\ disk' = disk
          /\ \A f \in Files \ {file} : /\ fileTimes'[f] = fileTimes[f]
                                       /\ toolNames'[f] = toolNames[f]
      BY <1>8, <2>1 DEF Remember, FileDone, TypeInv, scripts, registry
    <2>3. current[file] = disk[file].time =>
             /\ defs.names = disk[file].content.names
             /\ defs.version = disk[file].time
      BY <2>1 DEF LoadedInv
    <2>4. ASSUME NEW n \in DOMAIN index, index[n].file = file
          PROVE  index[n].version = defs.version /\ n \in NamesIn(defs.names)
      BY <2>1, <2>4 DEF VersionInv
    <2> QED
      BY <2>1, <2>2, <2>3, <2>4
  <1>9. CASE \/ ReloadNothing \/ BeginReload \/ BeginGone \/ BeginLoad
             \/ EndReload \/ Notify
    <2>1. /\ disk' = disk /\ fileTimes' = fileTimes /\ toolNames' = toolNames
          /\ index' = index
      BY <1>9 DEF ReloadNothing, BeginReload, BeginGone, BeginLoad, EndReload,
          Notify, scripts, registry, loader
    <2> QED
      BY <2>1
  <1>10. ASSUME NEW f \in Files,
                Scan(f) \/ PickGone(f) \/ Load(f) \/ LoadFails(f)
         PROVE  CurrentInv'
    <2>1. /\ disk' = disk /\ fileTimes' = fileTimes /\ toolNames' = toolNames
          /\ index' = index
      BY <1>10 DEF Scan, PickGone, Load, LoadFails, scripts, registry, loader
    <2> QED
      BY <2>1
  <1>11. CASE Serve \/ Snapshot \/ SendList \/ UNCHANGED vars
    <2>1. /\ disk' = disk /\ fileTimes' = fileTimes /\ toolNames' = toolNames
          /\ index' = index
      BY <1>11 DEF Serve, Snapshot, SendList, vars, scripts, registry, loader
    <2> QED
      BY <2>1
  <1> QED
    BY <1>1, <1>2, <1>3, <1>4, <1>5, <1>6, <1>7, <1>8, <1>9, <1>10, <1>11
    DEF Next, ReloadStep, DiskEvent

LEMMA NamedStep == NamedInv /\ [Next]_vars => NamedInv'
  <1> SUFFICES ASSUME NamedInv, [Next]_vars
               PROVE  NamedInv'
    OBVIOUS
  <1> USE DEF NamedInv
  <1>1. CASE Drop
    BY <1>1, Unregistered DEF Drop
  <1>2. ASSUME NEW t, RegisterOrReplace(t)
        PROVE  NamedInv'
    <2>1. /\ DOMAIN index' = DOMAIN index \cup {t.name}
          /\ index'[t.name] = t
          /\ \A n \in DOMAIN index : n # t.name => index'[n] = index[n]
      BY ONLY <1>2, Registered
    <2> QED
      BY <2>1
  <1>3. CASE Add
    BY <1>2, <1>3 DEF Add
  <1>4. ASSUME NEW n \in Builtins, RegisterBuiltin(n)
        PROVE  NamedInv'
    BY <1>2, <1>4 DEF RegisterBuiltin
  <1>5. index' = index => NamedInv'
    OBVIOUS
  <1> QED
    BY <1>1, <1>3, <1>4, <1>5
    DEF Next, DiskEvent, ReloadStep, WriteScript, RemoveScript, RemoveDirectory,
        ReloadNothing, BeginReload, BeginGone, BeginLoad, EndReload, Scan,
        PickGone, Load, LoadFails, Notify, Forget, Remember, FileDone, Serve,
        Snapshot, SendList, vars, registry

LEMMA CalledByName ==
    ASSUME TypeInv, NEW f \in Files, NEW n,
           n \in NamesIn(disk[f].content.names),
           NEW t, t.name = n, t.file = f
    PROVE  Execute(t) = n
  <1> DEFINE c == disk[f].content
  <1>1. c \in Contents \cup {NoContent}
    BY DEF TypeInv
  <1>2. c # NoContent
    BY NamesOfNone DEF NoContent
  <1>3. /\ c.names \in Seq(Names)
        /\ c.single => Len(c.names) <= 1
    BY <1>1, <1>2, CatalogueAssumption
  <1>4. PICK i \in DOMAIN c.names : n = c.names[i]
    BY DEF NamesIn
  <1> HIDE DEF c
  <1>5. i \in 1 .. Len(c.names) /\ Len(c.names) \in Nat
    BY <1>3, <1>4
  <1>6. c.names # <<>>
    BY <1>5
  <1>7. c.single => Head(c.names) = n
    <2>1. c.single => i = 1
      BY <1>3, <1>5
    <2>2. Head(c.names) = c.names[1]
      BY <1>3, <1>6
    <2> QED
      BY <1>4, <2>1, <2>2
  <1> QED
    BY <1>4, <1>6, <1>7 DEF Execute, c

-----------------------------------------------------------------------------
(* The client.                                                             *)

LEMMA ClientStep == PassInv /\ ClientInv /\ [Next]_vars => ClientInv'
  <1> SUFFICES ASSUME PassInv, ClientInv, [Next]_vars
               PROVE  ClientInv'
    OBVIOUS
  <1> USE DEF ClientInv
  <1>1. CASE Drop
    <2>1. ~HasTool(Head(drops)) => tools' = tools
      BY <1>1, Unregistered DEF Drop
    <2>2. /\ phase' = phase /\ asked' = asked /\ dirty' = dirty
          /\ snap' = snap /\ known' = known
          /\ owed' = (phase = "serving" /\ HasTool(Head(drops)))
      BY <1>1 DEF Drop, boot, client
    <2> QED
      BY <1>1, <2>1, <2>2 DEF Drop
  <1>2. CASE Add
    BY <1>2 DEF Add, boot, client
  <1>3. ASSUME NEW n \in Builtins, RegisterBuiltin(n)
        PROVE  ClientInv'
    BY <1>3 DEF RegisterBuiltin, client
  <1>4. CASE Notify
    BY <1>4 DEF Notify, boot
  <1>5. CASE Snapshot \/ SendList
    BY <1>5 DEF Snapshot, SendList, registry, boot
  <1>6. CASE Serve
    BY <1>6 DEF Serve, registry, client
  <1>7. CASE \/ ReloadNothing \/ BeginReload \/ BeginGone \/ BeginLoad
             \/ EndReload
    BY <1>7 DEF ReloadNothing, BeginReload, BeginGone, BeginLoad, EndReload,
        Return, MayReload, registry, boot, client
  <1>8. ASSUME NEW f \in Files,
               Scan(f) \/ PickGone(f) \/ Load(f) \/ LoadFails(f)
        PROVE  ClientInv'
    BY <1>8 DEF Scan, PickGone, Load, LoadFails, registry, boot, client
  <1>9. CASE Forget \/ Remember
    BY <1>9 DEF Forget, Remember, FileDone, registry, boot, client
  <1>10. CASE DiskEvent
    BY <1>10 DEF DiskEvent, WriteScript, RemoveScript, RemoveDirectory,
        registry, boot, client
  <1>11. CASE UNCHANGED vars
    BY <1>11 DEF vars, registry, boot, client
  <1> QED
    BY <1>1, <1>2, <1>3, <1>4, <1>5, <1>6, <1>7, <1>8, <1>9, <1>10, <1>11
    DEF Next, ReloadStep

-----------------------------------------------------------------------------
(* The theorems.                                                           *)

\* The inductive invariant: what each pass of reload() holds, together with
\* what the loader, the registry and the disk have to do with each other.
THEOREM CatalogueInvariant == Spec => []Inv
  <1>1. Inv /\ [Next]_vars => Inv'
    BY TypeStep, PassStep, FreshStep, SeenStep, LoadedStep, OwnStep,
       VersionStep, CurrentStep DEF Inv
  <1> QED
    BY InitInv, <1>1, PTL DEF Spec

\* Whatever the scripts, and however reload() and the disk interleave, a
\* loaded script has its tools unless another owner has had the name, and no
\* tool outlives its script.
THEOREM LoaderAndRegistryAgree == Spec => []LoaderOwnsTools
  <1>1. Inv => LoaderOwnsTools
    BY DEF Inv, OwnInv
  <1> QED
    BY CatalogueInvariant, <1>1, PTL

\* A script that reload() takes to be unchanged is the one it loaded.
THEOREM ScriptsUpToDate == Spec => []UpToDate
  <1>1. Inv /\ NamedInv => UpToDate
    <2> SUFFICES ASSUME Inv, NamedInv,
                        NEW f \in Files, fileTimes[f] # 0,
                        fileTimes[f] = disk[f].time,
                        NEW n \in DOMAIN index, index[n].file = f
                 PROVE  Execute(index[n]) = n
      BY DEF Inv, CurrentInv, UpToDate
    <2>1. TypeInv /\ n \in NamesIn(disk[f].content.names)
      BY DEF Inv, CurrentInv
    <2>2. index[n].name = n
      BY DEF NamedInv
    <2> QED
      BY <2>1, <2>2, CalledByName
  <1>2. Init => NamedInv
    BY DEF Init, NamedInv
  <1> QED
    BY CatalogueInvariant, NamedStep, <1>1, <1>2, PTL DEF Spec

\* A client that refetches has the current tools when nothing is under way.
THEOREM ClientCatchesUp == Spec => []CaughtUp
  <1>1. Init => ClientInv
    BY DEF Init, ClientInv
  <1>2. Inv => PassInv
    BY DEF Inv
  <1>3. ClientInv => CaughtUp
    BY DEF ClientInv, CaughtUp
  <1> QED
    BY CatalogueInvariant, ClientStep, <1>1, <1>2, <1>3, PTL DEF Spec
=============================================================================
