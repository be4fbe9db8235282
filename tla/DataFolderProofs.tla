--------------------------- MODULE DataFolderProofs ---------------------------
(***************************************************************************)
(* Theorems about DataFolder, for any number of starts and any schemas.    *)
(*                                                                         *)
(* The invariant has two halves.  Who is past the locks owns the folder it *)
(* works on, so that tokens, copies and versions change under nobody's     *)
(* hands; and of the two names, what there is to serve is under the new    *)
(* one as soon as a start has gone by an outdated look at the old one.     *)
(***************************************************************************)
EXTENDS DataFolder, TLAPS

Inside == {"admin", "writeAdmin", "user", "writeUser", "open", "copy", "copying",
           "change", "stamp", "serve"}
Places == {"off", "look", "lookOld", "move", "lock"} \cup Inside

TypeOK ==
  /\ folder \in [Names -> Folders \cup {None}]
  /\ starter \in [Starters -> [pc : Places, version : Versions, at : Names, overtaken : BOOLEAN]]

OwnFolder == \A p \in Starters : starter[p].pc \in Inside => Exists(starter[p].at) /\ Mine(p).owner = p

TokensMade ==
  \A p \in Starters :
    /\ starter[p].pc \in Inside \ {"admin", "writeAdmin"} => Mine(p).token["admin"] = "whole"
    /\ starter[p].pc \in Inside \ {"admin", "writeAdmin", "user", "writeUser"}
         => Mine(p).token["user"] = "whole"

(* The version may be behind the schema, never ahead of it.                *)
SchemaAhead ==
  \A n \in Names : Exists(n) => /\ folder[n].schema >= folder[n].version
                                /\ folder[n].data => folder[n].schema >= 1

Migrates(p) ==
  /\ starter[p].pc \in {"copy", "copying", "change", "stamp"} => Mine(p).version < starter[p].version
  /\ starter[p].pc \in {"copy", "copying"} => Mine(p).schema >= 1
  /\ starter[p].pc = "stamp" => Mine(p).schema >= starter[p].version
  /\ starter[p].pc = "serve" => Mine(p).version = starter[p].version
  /\ starter[p].pc = "change" /\ Mine(p).data
       => Mine(p).copies[CopyName(Mine(p))] = Mine(p).schema
  /\ starter[p].pc = "stamp" /\ Mine(p).data
       => Mine(p).copies[CopyName(Mine(p))] = Mine(p).was \/ Mine(p).cut

Migrating == \A p \in Starters : Migrates(p)

(* A schema other than that of the version belongs to a start that is      *)
(* about to set the version, or died there.                                *)
LastSet ==
  \A n \in Names :
    Exists(n) /\ folder[n].schema # folder[n].was /\ ~folder[n].cut
      => \E p \in Starters : starter[p].pc = "stamp" /\ starter[p].at = n

(* What a start goes by is true, or it is overtaken.                       *)
Overtaken(p) == ~At(p, "off") /\ starter[p].overtaken
GoesByOld(p) == At(p, "move") \/ (~At(p, "off") /\ starter[p].at = "old")

LooksTrue ==
  \A p \in Starters :
    /\ starter[p].pc \in {"look", "lookOld", "move"} => starter[p].at = "new"
    /\ Overtaken(p) => Exists("new") /\ folder["new"].data
    /\ GoesByOld(p) /\ ~Overtaken(p) => Exists("old") /\ folder["old"].data
    /\ At(p, "lookOld") /\ ~Overtaken(p) /\ Exists("old") => folder["old"].data
    /\ At(p, "lock") /\ starter[p].at = "new" => Exists("new") \/ ~Exists("old")

(* Whoever looks at the old name after a start was overtaken is, too.      *)
LooksAlike ==
  \A p, q \in Starters : Overtaken(q) /\ At(p, "lookOld") => Overtaken(p)

(* What the two folders hold.                                              *)
TwoNames ==
  /\ Exists("old") /\ ~Exists("new") => folder["old"].data
  /\ Exists("old") /\ Exists("new") => folder["new"].data

OpeningInv == /\ TypeOK /\ OwnFolder /\ TokensMade /\ SchemaAhead /\ Migrating /\ LastSet
              /\ LooksTrue /\ LooksAlike /\ TwoNames

---------------------------------------------------------------------------
(* Types.                                                                  *)

LEMMA EmptyType == Empty \in Folders
BY SchemaAssumption DEF Empty, Folders, Kinds

LEMMA InitType == Init => TypeOK
<1> SUFFICES ASSUME Init PROVE TypeOK
  OBVIOUS
<1>1. starter \in [Starters -> [pc : Places, version : Versions, at : Names, overtaken : BOOLEAN]]
  BY SchemaAssumption DEF Init, Off, Begun, Places, Versions, Names
<1>2. ASSUME NEW f \in Left PROVE f \in Folders
  <2>1. PICK t \in {"whole", None}, s \in 1..Newest :
          f = [token   |-> [k \in Kinds |-> IF k = "admin" THEN "whole" ELSE t],
               version |-> IF s = 1 THEN 0 ELSE s, schema |-> s, was |-> s, cut |-> FALSE,
               data    |-> TRUE, copies  |-> [v \in 1..Newest |-> None], owner |-> None]
    BY <1>2 DEF Left
  <2>2. f.token \in [Kinds -> {"empty", "whole", None}]
    BY <2>1
  <2>3. f.version \in 0..Newest /\ f.schema \in 0..Newest /\ f.was \in 0..Newest /\ f.cut \in BOOLEAN
    BY <2>1, SchemaAssumption
  <2>4. f.copies \in [1..Newest -> 0..Newest \cup {None}]
    BY <2>1
  <2>5. f.data \in BOOLEAN /\ f.owner \in Starters \cup {None}
    BY <2>1
  <2>6. QED  BY <2>1, <2>2, <2>3, <2>4, <2>5 DEF Folders
<1>3. folder \in [Names -> Folders \cup {None}]
  BY <1>2 DEF Init
<1>4. QED  BY <1>1, <1>3 DEF TypeOK

LEMMA MineType ==
  ASSUME TypeOK, OwnFolder, NEW p \in Starters, starter[p].pc \in Inside
  PROVE  Mine(p) \in Folders /\ Mine(p).owner = p /\ starter[p].at \in Names
BY DEF TypeOK, OwnFolder, Mine, Exists

LEMMA ChangeType ==
  ASSUME TypeOK, NEW p \in Starters, NEW f \in Folders, Change(p, f)
  PROVE  folder' \in [Names -> Folders \cup {None}]
BY DEF TypeOK, Change

LEMMA GotoType ==
  ASSUME TypeOK, NEW p \in Starters, NEW place \in Places, Goto(p, place)
  PROVE  starter' \in [Starters -> [pc : Places, version : Versions, at : Names,
                                     overtaken : BOOLEAN]]
BY DEF TypeOK, Goto

LEMMA FreedKeeps ==
  ASSUME NEW f \in Folders, NEW p \in Starters
  PROVE  LET g == Freed(f, p)
         IN /\ g \in Folders
            /\ g.version = f.version /\ g.schema = f.schema /\ g.was = f.was /\ g.data = f.data
            /\ g.token = f.token /\ g.copies = f.copies /\ g.owner = None
            /\ IF At(p, "stamp") THEN g.cut ELSE g.cut = f.cut
<1>1. CASE At(p, "stamp")
  <2>1. Freed(f, p) = [f EXCEPT !.owner = None, !.cut = TRUE]
    BY <1>1 DEF Freed
  <2>2. QED  BY <1>1, <2>1 DEF Folders
<1>2. CASE ~At(p, "stamp")
  <2>1. Freed(f, p) = [f EXCEPT !.owner = None]
    BY <1>2 DEF Freed, Folders
  <2>2. QED  BY <1>2, <2>1 DEF Folders
<1>3. QED  BY <1>1, <1>2

(* One step of one start.                                                  *)
Act(p) ==
  \/ Start(p) \/ Look(p) \/ LookOld(p) \/ Move(p) \/ Lock(p)
  \/ \E k \in Kinds : CreateToken(p, k) \/ WriteToken(p, k) \/ ReadToken(p, k)
  \/ OpenDatabase(p) \/ BeginCopy(p) \/ EndCopy(p) \/ ChangeSchema(p) \/ Stamp(p)
  \/ Gather(p) \/ End(p)

(* Past the locks, a step changes the start's own folder, and keeps it.    *)
LEMMA InsideChange ==
  ASSUME TypeOK, OwnFolder, NEW p \in Starters, Act(p), starter[p].pc \in Inside, ~End(p)
  PROVE  \E f \in Folders : Change(p, f) /\ f.owner = p
<1> USE SchemaAssumption, MineType DEF At, Kinds, Inside
<1> DEFINE Kept(f) == f \in Folders /\ Change(p, f) /\ f.owner = p
<1>1. Mine(p) \in Folders /\ Mine(p).owner = p
  OBVIOUS
<1>2. starter[p].version \in 0..Newest
  BY DEF TypeOK, Versions
<1>3. CASE UNCHANGED folder
  BY <1>1, <1>3 DEF Change, Mine, TypeOK
<1>4. ASSUME NEW k \in Kinds, CreateToken(p, k) PROVE Kept([Mine(p) EXCEPT !.token[k] = "empty"])
  BY <1>1, <1>4 DEF CreateToken, Folders
<1>5. ASSUME NEW k \in Kinds, WriteToken(p, k) PROVE Kept([Mine(p) EXCEPT !.token[k] = "whole"])
  BY <1>1, <1>5 DEF WriteToken, Folders
<1>6. CASE BeginCopy(p)
  <2>1. Mine(p).copies \in [1..Newest -> 0..Newest \cup {None}] /\ 0 \in 0..Newest
    BY <1>1 DEF Folders
  <2>2. [Mine(p).copies EXCEPT ![CopyName(Mine(p))] = 0] \in [1..Newest -> 0..Newest \cup {None}]
    BY <2>1
  <2>3. Kept([Mine(p) EXCEPT !.copies[CopyName(Mine(p))] = 0])
    BY <1>1, <1>6, <2>2 DEF BeginCopy, Folders
  <2>4. QED  BY <2>3
<1>7. CASE EndCopy(p)
  <2>1. Mine(p).copies \in [1..Newest -> 0..Newest \cup {None}] /\ Mine(p).schema \in 0..Newest
    BY <1>1 DEF Folders
  <2>2. [Mine(p).copies EXCEPT ![CopyName(Mine(p))] = Mine(p).schema]
          \in [1..Newest -> 0..Newest \cup {None}]
    BY <2>1
  <2>3. Kept([Mine(p) EXCEPT !.copies[CopyName(Mine(p))] = Mine(p).schema])
    BY <1>1, <1>7, <2>2 DEF EndCopy, Folders
  <2>4. QED  BY <2>3
<1>8. CASE ChangeSchema(p)
  <2>1. Kept([Mine(p) EXCEPT !.schema = IF @ < starter[p].version THEN starter[p].version ELSE @])
    BY <1>1, <1>2, <1>8 DEF ChangeSchema, Folders
  <2>2. QED  BY <2>1
<1>9. CASE Stamp(p)
  <2>1. Kept([Mine(p) EXCEPT !.version = starter[p].version, !.was = Mine(p).schema, !.cut = FALSE])
    BY <1>1, <1>2, <1>9 DEF Stamp, Folders
  <2>2. QED  BY <2>1
<1>10. CASE Gather(p)
  <2>1. Kept([Mine(p) EXCEPT !.data = TRUE])
    BY <1>1, <1>10 DEF Gather, Folders
  <2>2. QED  BY <2>1
<1>11. QED
  <2>1. \/ UNCHANGED folder
        \/ \E k \in Kinds : CreateToken(p, k) \/ WriteToken(p, k)
        \/ BeginCopy(p) \/ EndCopy(p) \/ ChangeSchema(p) \/ Stamp(p) \/ Gather(p)
    BY DEF Act, Start, Look, LookOld, Move, Lock, ReadToken, OpenDatabase
  <2>2. QED  BY <2>1, <1>3, <1>4, <1>5, <1>6, <1>7, <1>8, <1>9, <1>10

LEMMA ActType == ASSUME TypeOK, OwnFolder, NEW p \in Starters, Act(p) PROVE TypeOK'
<1> USE SchemaAssumption, MineType, ChangeType, GotoType DEF Places, Inside, At, Kinds
<1>1. CASE Start(p)
  BY <1>1 DEF Start, Begun, TypeOK, Names
<1>2. CASE Look(p)
  BY <1>2 DEF Look, TypeOK
<1>3. CASE LookOld(p)
  BY <1>3 DEF LookOld, Goto, TypeOK
<1>4. CASE Move(p)
  <2>1. CASE Unmoved(p) /\ UNCHANGED folder
    <3>1. [starter[p] EXCEPT !.pc = "lock", !.at = "old"]
            \in [pc : Places, version : Versions, at : Names, overtaken : BOOLEAN]
      <4>1. starter[p] \in [pc : Places, version : Versions, at : Names, overtaken : BOOLEAN]
        BY DEF TypeOK
      <4>2. QED  BY <4>1 DEF Names
    <3>2. starter' = [starter EXCEPT ![p] = [starter[p] EXCEPT !.pc = "lock", !.at = "old"]]
      BY <2>1 DEF Unmoved
    <3>3. QED  BY <2>1, <3>1, <3>2 DEF TypeOK
  <2>2. CASE ~(Unmoved(p) /\ UNCHANGED folder)
    <3>1. folder' = [n \in Names |-> IF n = "new" THEN folder["old"] ELSE None]
      BY <1>4, <2>2 DEF Move
    <3>2. folder' \in [Names -> Folders \cup {None}]
      BY <3>1 DEF TypeOK, Names
    <3>3. starter' \in [Starters -> [pc : Places, version : Versions, at : Names, overtaken : BOOLEAN]]
      <4>1. ASSUME NEW q \in Starters
            PROVE  /\ [starter[q] EXCEPT !.pc = "lock"]
                        \in [pc : Places, version : Versions, at : Names, overtaken : BOOLEAN]
                   /\ [starter[q] EXCEPT !.overtaken = TRUE]
                        \in [pc : Places, version : Versions, at : Names, overtaken : BOOLEAN]
        <5>1. starter[q] \in [pc : Places, version : Versions, at : Names, overtaken : BOOLEAN]
          BY DEF TypeOK
        <5>2. QED  BY <5>1
      <4>2. starter' = [q \in Starters |->
                         IF q = p THEN [starter[q] EXCEPT !.pc = "lock"]
                         ELSE IF Trusting(q) THEN [starter[q] EXCEPT !.overtaken = TRUE]
                         ELSE starter[q]]
        BY <1>4, <2>2 DEF Move
      <4>3. QED  BY <4>1, <4>2 DEF TypeOK
    <3>4. QED  BY <3>2, <3>3 DEF TypeOK
  <2>3. QED  BY <2>1, <2>2
<1>5. CASE Lock(p)
  <2>1. starter' \in [Starters -> [pc : Places, version : Versions, at : Names, overtaken : BOOLEAN]]
    BY <1>5 DEF Lock
  <2> DEFINE f == IF Mine(p) = None THEN Empty ELSE Mine(p)
  <2>2. f \in Folders /\ [f EXCEPT !.owner = p] \in Folders
    BY EmptyType DEF TypeOK, Mine, Folders
  <2>3. Change(p, f) \/ Change(p, [f EXCEPT !.owner = p])
    BY <1>5 DEF Lock
  <2>4. QED  BY <2>1, <2>2, <2>3 DEF TypeOK
<1>6. CASE starter[p].pc \in Inside /\ ~End(p)
  <2>1. folder' \in [Names -> Folders \cup {None}]
    BY <1>6, InsideChange DEF TypeOK
  <2>2. starter' = starter \/ \E place \in Places : Goto(p, place)
    BY <1>6 DEF Act, Start, Look, LookOld, Move, Lock, CreateToken, WriteToken, ReadToken,
       OpenDatabase, BeginCopy, EndCopy, ChangeSchema, Stamp, Gather, After, Writing
  <2>3. QED  BY <2>1, <2>2 DEF TypeOK
<1>7. CASE End(p)
  <2>1. starter' \in [Starters -> [pc : Places, version : Versions, at : Names, overtaken : BOOLEAN]]
    BY <1>7 DEF End
  <2>2. ASSUME NEW n \in Names PROVE folder'[n] \in Folders \cup {None}
    <3>1. CASE Exists(n) /\ folder[n].owner = p
      <4>1. folder[n] \in Folders /\ folder'[n] = Freed(folder[n], p)
        BY <1>7, <3>1 DEF End, Exists, TypeOK
      <4>2. QED  BY <4>1, FreedKeeps
    <3>2. CASE ~(Exists(n) /\ folder[n].owner = p)
      BY <1>7, <3>2 DEF End, TypeOK
    <3>3. QED  BY <3>1, <3>2
  <2>3. QED  BY <1>7, <2>1, <2>2 DEF End, TypeOK
<1>8. QED
  BY <1>1, <1>2, <1>3, <1>4, <1>5, <1>6, <1>7 DEF Act, CreateToken, WriteToken, ReadToken,
     OpenDatabase, BeginCopy, EndCopy, ChangeSchema, Stamp, Gather, Writing

---------------------------------------------------------------------------
(* Who owns what.  A step of one start leaves alone the folder of another  *)
(* that is past the locks, and where that one stands.                      *)

LEMMA OthersKeep ==
  ASSUME TypeOK, OwnFolder, NEW p \in Starters, NEW q \in Starters, q # p, Act(p)
  PROVE  /\ starter'[q].pc = starter[q].pc
         /\ starter'[q].at = starter[q].at
         /\ starter'[q].version = starter[q].version
         /\ starter[q].pc \in Inside => Mine(q)' = Mine(q)
<1> USE StartersAssumption
<1>1. ASSUME ~Move(p), ~Lock(p), ~End(p)
      PROVE  /\ starter' = [starter EXCEPT ![p] = starter'[p]]
             /\ \/ folder' = folder
                \/ /\ starter[p].pc \in Inside
                   /\ folder' = [folder EXCEPT ![starter[p].at] = folder'[starter[p].at]]
  BY <1>1 DEF Act, Start, Look, LookOld, CreateToken, WriteToken, ReadToken, OpenDatabase,
     BeginCopy, EndCopy, ChangeSchema, Stamp, Gather, Change, Goto, At, Kinds, Writing, Inside, TypeOK
<1>2. CASE ~Move(p) /\ ~Lock(p) /\ ~End(p)
  BY <1>1, <1>2 DEF OwnFolder, Mine, TypeOK
<1>3. CASE Lock(p)
  <2>1. starter' = [starter EXCEPT ![p] = starter'[p]]
    BY <1>3 DEF Lock, Goto, TypeOK
  <2>2. folder' = [folder EXCEPT ![starter[p].at] = folder'[starter[p].at]]
    BY <1>3 DEF Lock, Change, TypeOK
  <2>3. Mine(p) # None /\ Mine(p).owner # None => folder' = folder
    BY <1>3 DEF Lock, Change, Mine, TypeOK
  <2>4. QED  BY <2>1, <2>2, <2>3 DEF OwnFolder, Exists, Mine, TypeOK
<1>4. CASE Move(p)
  <2>1. CASE Unmoved(p) /\ UNCHANGED folder
    BY <2>1 DEF Unmoved, Mine, TypeOK
  <2>2. CASE ~(Unmoved(p) /\ UNCHANGED folder)
    <3>1. /\ ~Exists("new") /\ folder["old"].owner = None
          /\ starter'[q] \in {starter[q], [starter[q] EXCEPT !.overtaken = TRUE]}
      BY <1>4, <2>2 DEF Move
    <3>2. starter[q].pc \notin Inside
      BY <3>1 DEF OwnFolder, Mine, Exists, TypeOK, Names
    <3>3. QED  BY <3>1, <3>2 DEF TypeOK
  <2>3. QED  BY <2>1, <2>2
<1>5. CASE End(p)
  BY <1>5 DEF End, Goto, OwnFolder, Exists, Mine, TypeOK
<1>6. QED  BY <1>2, <1>3, <1>4, <1>5

LEMMA ActOwn == ASSUME TypeOK, OwnFolder, NEW p \in Starters, Act(p) PROVE OwnFolder'
<1> USE NoneAssumption, MineType DEF At, Kinds, Inside
<1>1. TypeOK'
  BY ActType
<1>2. ASSUME NEW q \in Starters, q # p, starter'[q].pc \in Inside
      PROVE  Exists(starter[q].at)' /\ Mine(q)'.owner = q /\ starter'[q].at = starter[q].at
  BY <1>2, OthersKeep DEF Exists, Mine, OwnFolder
<1>3. ASSUME starter'[p].pc \in Inside
      PROVE  folder'[starter'[p].at] # None /\ folder'[starter'[p].at].owner = p
  <2>1. CASE Lock(p)
    <3>1. Goto(p, "admin")
      BY <1>3, <2>1 DEF Lock, Goto, TypeOK
    <3> DEFINE f == IF Mine(p) = None THEN Empty ELSE Mine(p)
    <3>2. Change(p, [f EXCEPT !.owner = p])
      BY <2>1, <3>1 DEF Lock, Goto, TypeOK
    <3>3. f \in Folders /\ [f EXCEPT !.owner = p] \in Folders /\ [f EXCEPT !.owner = p].owner = p
      BY EmptyType DEF TypeOK, Mine, Folders
    <3>4. folder'[starter[p].at] = [f EXCEPT !.owner = p] /\ starter'[p].at = starter[p].at
      BY <3>1, <3>2 DEF Change, Goto, TypeOK
    <3> HIDE DEF f
    <3>5. QED  BY <3>3, <3>4
  <2>2. CASE starter[p].pc \in Inside
    <3>1. starter'[p].at = starter[p].at
      BY <1>3, <2>2 DEF Act, Start, Look, LookOld, Move, Lock, CreateToken, WriteToken, ReadToken,
         OpenDatabase, BeginCopy, EndCopy, ChangeSchema, Stamp, Gather, End, Goto, TypeOK
    <3>2. ~End(p)
      BY <1>3 DEF End, Goto, TypeOK
    <3>3. PICK f \in Folders : Change(p, f) /\ f.owner = p
      BY <2>2, <3>2, InsideChange
    <3>4. folder'[starter[p].at] = f
      BY <3>3 DEF Change, TypeOK
    <3>5. QED  BY <3>1, <3>3, <3>4
  <2>3. CASE ~Lock(p) /\ starter[p].pc \notin Inside
    BY <1>3, <2>3 DEF Act, Start, Begun, Look, LookOld, Move, Unmoved, CreateToken, WriteToken, ReadToken,
       OpenDatabase, BeginCopy, EndCopy, ChangeSchema, Stamp, Gather, End, Goto, Writing, TypeOK
  <2>4. QED  BY <2>1, <2>2, <2>3
<1>4. QED  BY <1>1, <1>2, <1>3 DEF OwnFolder, Exists, Mine

---------------------------------------------------------------------------
(* Tokens, copies and versions, each by the place of the start.            *)

LEMMA ActTokens ==
  ASSUME TypeOK, OwnFolder, TokensMade, NEW p \in Starters, Act(p)
  PROVE  TokensMade'
<1> USE MineType DEF At, Kinds, Inside
<1>1. ASSUME NEW q \in Starters, q # p
      PROVE  starter'[q].pc = starter[q].pc /\ (starter[q].pc \in Inside => Mine(q)' = Mine(q))
  BY <1>1, OthersKeep
<1>2. ASSUME NEW k \in Kinds, WriteToken(p, k)
      PROVE  /\ Mine(p)'.token[k] = "whole"
             /\ \A l \in Kinds : Mine(p).token[l] = "whole" => Mine(p)'.token[l] = "whole"
             /\ starter'[p].pc = After(k)
  BY <1>2 DEF WriteToken, Writing, Change, Goto, Mine, Folders, TypeOK
<1>3. ASSUME NEW k \in Kinds, CreateToken(p, k)
      PROVE  /\ starter'[p].pc = Writing(k) /\ starter[p].pc = k
             /\ \A l \in Kinds \ {k} : Mine(p)'.token[l] = Mine(p).token[l]
  BY <1>3 DEF CreateToken, Change, Goto, Mine, Folders, TypeOK
<1>4. ASSUME starter[p].pc \in Inside, ~End(p), ~(\E k \in Kinds : CreateToken(p, k) \/ WriteToken(p, k))
      PROVE  Mine(p)'.token = Mine(p).token
  <2>1. CASE Stamp(p)
    BY <1>4, <2>1 DEF Stamp, Change, Goto, Mine, Folders, TypeOK
  <2>2. CASE BeginCopy(p) \/ EndCopy(p)
    BY <1>4, <2>2 DEF BeginCopy, EndCopy, Change, Goto, Mine, Folders, TypeOK
  <2>3. CASE ChangeSchema(p) \/ Gather(p)
    <3>1. CASE ChangeSchema(p)
      <4>1. PICK v : Change(p, [Mine(p) EXCEPT !.schema = v])
        BY <3>1 DEF ChangeSchema
      <4>2. QED  BY <1>4, <3>1, <4>1 DEF ChangeSchema, Change, Goto, Mine, Folders, TypeOK
    <3>2. CASE Gather(p)
      BY <1>4, <3>2 DEF Gather, Change, Goto, Mine, Folders, TypeOK
    <3>3. QED  BY <2>3, <3>1, <3>2
  <2>4. CASE (\E k \in Kinds : ReadToken(p, k)) \/ OpenDatabase(p)
    BY <2>4 DEF ReadToken, OpenDatabase, Goto, Mine, TypeOK
  <2>5. QED
    BY <1>4, <2>1, <2>2, <2>3, <2>4 DEF Act, Start, Look, LookOld, Move, Lock
<1>5. /\ starter'[p].pc \in Inside \ {"admin", "writeAdmin"} => Mine(p)'.token["admin"] = "whole"
      /\ starter'[p].pc \in Inside \ {"admin", "writeAdmin", "user", "writeUser"}
           => Mine(p)'.token["user"] = "whole"
  <2>1. CASE \E k \in Kinds : WriteToken(p, k)
    BY <2>1, <1>2 DEF WriteToken, Writing, After, TokensMade
  <2>2. CASE \E k \in Kinds : CreateToken(p, k)
    BY <2>2, <1>3 DEF Writing, TokensMade
  <2>3. CASE starter[p].pc \notin Inside \/ End(p)
    BY <2>3 DEF Act, Start, Begun, Look, LookOld, Move, Unmoved, Lock, CreateToken, WriteToken, ReadToken,
       OpenDatabase, BeginCopy, EndCopy, ChangeSchema, Stamp, Gather, End, Goto, Writing, TypeOK
  <2>4. CASE /\ starter[p].pc \in Inside /\ ~End(p)
             /\ ~(\E k \in Kinds : CreateToken(p, k) \/ WriteToken(p, k))
    BY <2>4, <1>4 DEF Act, Start, Look, LookOld, Move, Lock, ReadToken, OpenDatabase, BeginCopy, EndCopy,
       ChangeSchema, Stamp, Gather, Goto, After, TokensMade, TypeOK
  <2>5. QED  BY <2>1, <2>2, <2>3, <2>4
<1>6. QED  BY <1>1, <1>5 DEF TokensMade

(* Which step changes which part of the start's own folder.                *)
LEMMA Effects ==
  ASSUME TypeOK, OwnFolder, NEW p \in Starters, Act(p), starter[p].pc \in Inside, ~End(p)
  PROVE  /\ starter'[p].at = starter[p].at /\ starter'[p].version = starter[p].version
         /\ starter'[p].overtaken = starter[p].overtaken
         /\ ~Stamp(p) => /\ Mine(p)'.version = Mine(p).version
                         /\ Mine(p)'.was = Mine(p).was /\ Mine(p)'.cut = Mine(p).cut
         /\ ~ChangeSchema(p) => Mine(p)'.schema = Mine(p).schema
         /\ ~Gather(p) => Mine(p)'.data = Mine(p).data
         /\ ~BeginCopy(p) /\ ~EndCopy(p) => Mine(p)'.copies = Mine(p).copies
<1> USE MineType DEF At, Kinds, Inside
<1>1. /\ starter'[p].at = starter[p].at /\ starter'[p].version = starter[p].version
      /\ starter'[p].overtaken = starter[p].overtaken
  BY DEF Act, Start, Look, LookOld, Move, Lock, CreateToken, WriteToken, ReadToken,
     OpenDatabase, BeginCopy, EndCopy, ChangeSchema, Stamp, Gather, Goto, TypeOK
<1>2. ASSUME NEW k \in Kinds, CreateToken(p, k) \/ WriteToken(p, k)
      PROVE  /\ Mine(p)'.version = Mine(p).version /\ Mine(p)'.schema = Mine(p).schema
             /\ Mine(p)'.data = Mine(p).data /\ Mine(p)'.copies = Mine(p).copies
             /\ Mine(p)'.was = Mine(p).was /\ Mine(p)'.cut = Mine(p).cut
  <2>1. PICK t : folder' = [folder EXCEPT ![starter[p].at] = [Mine(p) EXCEPT !.token = t]]
    BY <1>2 DEF CreateToken, WriteToken, Change
  <2>2. Mine(p)' = [Mine(p) EXCEPT !.token = t]
    BY <2>1, <1>1 DEF Mine, TypeOK
  <2>3. QED  BY <2>2 DEF Folders
<1>3. CASE BeginCopy(p) \/ EndCopy(p)
  <2>1. PICK c : folder' = [folder EXCEPT ![starter[p].at] = [Mine(p) EXCEPT !.copies = c]]
    BY <1>3 DEF BeginCopy, EndCopy, Change
  <2>2. Mine(p)' = [Mine(p) EXCEPT !.copies = c]
    BY <2>1, <1>1 DEF Mine, TypeOK
  <2>3. QED  BY <2>2, <1>1, <1>3 DEF Folders
<1>4. CASE ChangeSchema(p)
  <2>1. PICK s : Mine(p)' = [Mine(p) EXCEPT !.schema = s]
    BY <1>1, <1>4 DEF ChangeSchema, Change, Mine, TypeOK
  <2>2. QED  BY <2>1, <1>1, <1>4 DEF Folders
<1>5. CASE Stamp(p)
  <2>1. PICK v, w : Mine(p)' = [Mine(p) EXCEPT !.version = v, !.was = w, !.cut = FALSE]
    BY <1>1, <1>5 DEF Stamp, Change, Mine, TypeOK
  <2>2. QED  BY <2>1, <1>1, <1>5 DEF Folders
<1>6. CASE Gather(p)
  <2>1. Mine(p)' = [Mine(p) EXCEPT !.data = TRUE]
    BY <1>1, <1>6 DEF Gather, Change, Mine, TypeOK
  <2>2. QED  BY <2>1, <1>1, <1>6 DEF Folders
<1>7. CASE UNCHANGED folder
  BY <1>1, <1>7 DEF Mine
<1>8. \/ UNCHANGED folder
      \/ \E k \in Kinds : CreateToken(p, k) \/ WriteToken(p, k)
      \/ BeginCopy(p) \/ EndCopy(p) \/ ChangeSchema(p) \/ Stamp(p) \/ Gather(p)
  BY DEF Act, Start, Look, LookOld, Move, Lock, ReadToken, OpenDatabase
<1>9. QED  BY <1>1, <1>2, <1>3, <1>4, <1>5, <1>6, <1>7, <1>8

LEMMA ActSchema ==
  ASSUME TypeOK, OwnFolder, SchemaAhead, Migrating, NEW p \in Starters, Act(p)
  PROVE  SchemaAhead'
<1> USE MineType, SchemaAssumption DEF At, Kinds, Inside
<1> SUFFICES ASSUME NEW n \in Names, folder'[n] # None
             PROVE  folder'[n].schema >= folder'[n].version /\ (folder'[n].data => folder'[n].schema >= 1)
  BY DEF SchemaAhead, Exists
<1> DEFINE Sound(f) == f.schema >= f.version /\ (f.data => f.schema >= 1)
<1>1. \A m \in Names : folder[m] # None => folder[m] \in Folders /\ Sound(folder[m])
  BY DEF SchemaAhead, Exists, TypeOK
<1>2. CASE folder'[n] = folder[n]
  BY <1>1, <1>2
<1>3. CASE Move(p) /\ folder' # folder
  BY <1>1, <1>3 DEF Move, Names
<1>4. CASE End(p)
  BY <1>1, <1>4, FreedKeeps DEF End, Exists, TypeOK
<1>5. CASE Lock(p) /\ folder'[n] # folder[n]
  <2>1. n = starter[p].at
    BY <1>5 DEF Lock, Change, TypeOK
  <2> DEFINE f == IF Mine(p) = None THEN Empty ELSE Mine(p)
  <2>2. f \in Folders /\ Sound(f)
    BY <2>1, <1>1, EmptyType DEF Mine, Empty, TypeOK
  <2>3. folder'[n] = f \/ folder'[n] = [f EXCEPT !.owner = p]
    BY <1>5, <2>1 DEF Lock, Change, TypeOK
  <2> HIDE DEF f
  <2>4. QED  BY <2>2, <2>3 DEF Folders
<1>6. CASE starter[p].pc \in Inside /\ ~End(p) /\ folder'[n] # folder[n]
  <2>1. n = starter[p].at /\ Mine(p) \in Folders /\ Sound(Mine(p)) /\ Mine(p)' = folder'[n]
    <3>1. PICK f \in Folders : Change(p, f)
      BY <1>6, InsideChange
    <3>2. n = starter[p].at
      BY <1>6, <3>1 DEF Change, TypeOK
    <3>3. starter'[p].at = starter[p].at
      BY <1>6 DEF Act, Start, Look, LookOld, Move, Lock, CreateToken, WriteToken, ReadToken,
         OpenDatabase, BeginCopy, EndCopy, ChangeSchema, Stamp, Gather, Goto, TypeOK
    <3>4. QED  BY <1>1, <1>6, <3>2, <3>3 DEF Mine, OwnFolder, Exists
  <2>2. starter[p].version \in 2..Newest
    BY DEF TypeOK, Versions
  <2>3. CASE Stamp(p)
    BY <2>1, <2>2, <2>3 DEF Stamp, Change, Migrating, Migrates, Folders, Mine, TypeOK
  <2>4. CASE ChangeSchema(p)
    BY <2>1, <2>2, <2>4 DEF ChangeSchema, Change, Folders, Mine, TypeOK
  <2>5. CASE Gather(p)
    BY <2>1, <2>2, <2>5 DEF Gather, Change, Migrating, Migrates, Folders, Mine, TypeOK
  <2>6. CASE ~Stamp(p) /\ ~ChangeSchema(p) /\ ~Gather(p)
    BY <2>1, <1>6, <2>6, Effects
  <2>7. QED  BY <2>3, <2>4, <2>5, <2>6
<1>7. QED
  BY <1>2, <1>3, <1>4, <1>5, <1>6 DEF Act, Start, Look, LookOld, CreateToken, WriteToken, ReadToken,
     OpenDatabase, BeginCopy, EndCopy, ChangeSchema, Stamp, Gather, Writing

LEMMA ActMigrating ==
  ASSUME TypeOK, OwnFolder, SchemaAhead, Migrating, LastSet, NEW p \in Starters, Act(p)
  PROVE  Migrating'
<1> USE SchemaAssumption, MineType DEF At, Kinds, Inside
<1>1. ASSUME NEW q \in Starters, q # p
      PROVE  /\ starter'[q].pc = starter[q].pc /\ starter'[q].version = starter[q].version
             /\ starter[q].pc \in Inside => Mine(q)' = Mine(q)
  BY <1>1, OthersKeep
<1>2. starter[p].version \in 2..Newest
  BY DEF TypeOK, Versions
<1>3. CASE starter[p].pc \notin Inside \/ End(p)
  <2>1. starter'[p].pc \notin {"copy", "copying", "change", "stamp", "serve"}
    BY <1>3 DEF Act, Start, Begun, Look, LookOld, Move, Unmoved, Lock, CreateToken, WriteToken, ReadToken,
       OpenDatabase, BeginCopy, EndCopy, ChangeSchema, Stamp, Gather, End, Goto, Writing, TypeOK
  <2>2. QED  BY <1>1, <2>1 DEF Migrating, Migrates
<1>4. ASSUME starter[p].pc \in Inside, ~End(p) PROVE Migrating'
  <2> SUFFICES Migrates(p)'
    BY <1>1 DEF Migrating, Migrates
  <2>1. /\ Mine(p) \in Folders /\ starter'[p].version = starter[p].version
        /\ ~Stamp(p) => /\ Mine(p)'.version = Mine(p).version
                        /\ Mine(p)'.was = Mine(p).was /\ Mine(p)'.cut = Mine(p).cut
        /\ ~ChangeSchema(p) => Mine(p)'.schema = Mine(p).schema
        /\ ~Gather(p) => Mine(p)'.data = Mine(p).data
        /\ ~BeginCopy(p) /\ ~EndCopy(p) => Mine(p)'.copies = Mine(p).copies
    BY <1>4, Effects
  <2>2. Mine(p).schema >= Mine(p).version /\ (Mine(p).data => Mine(p).schema >= 1)
    BY <1>4 DEF SchemaAhead, OwnFolder, Mine, Exists, TypeOK
  <2>3. Mine(p).version \in 0..Newest /\ Mine(p).schema \in 0..Newest
    BY <2>1 DEF Folders
  <2>4. CASE OpenDatabase(p)
    <3>1. starter'[p].pc \in {"serve", "copy", "change"} /\ ~Stamp(p) /\ ~ChangeSchema(p) /\ ~Gather(p)
          /\ ~BeginCopy(p) /\ ~EndCopy(p)
      BY <2>4 DEF OpenDatabase, Goto, Stamp, ChangeSchema, Gather, BeginCopy, EndCopy, TypeOK
    <3>2. CASE Mine(p).version = starter[p].version /\ Goto(p, "serve")
      <4>1. starter'[p].pc = "serve"
        BY <3>2 DEF Goto, TypeOK
      <4>2. QED  BY <4>1, <3>1, <3>2, <2>1 DEF Migrates
    <3>3. CASE CopyNeeded(Mine(p), starter[p].version) /\ Mine(p).version < starter[p].version
               /\ Goto(p, "copy")
      <4>1. starter'[p].pc = "copy"
        BY <3>3 DEF Goto, TypeOK
      <4>2. Mine(p).schema >= 1
        BY <3>3, <2>2, <2>3 DEF CopyNeeded
      <4>3. QED  BY <4>1, <4>2, <3>1, <3>3, <2>1 DEF Migrates
    <3>4. CASE ~CopyNeeded(Mine(p), starter[p].version) /\ Mine(p).version < starter[p].version
               /\ Goto(p, "change")
      <4>1. starter'[p].pc = "change"
        BY <3>4 DEF Goto, TypeOK
      <4>2. ~Mine(p).data
        BY <3>4, <2>2, <2>3 DEF CopyNeeded
      <4>3. QED  BY <4>1, <4>2, <3>1, <3>4, <2>1 DEF Migrates
    <3>5. QED  BY <2>4, <3>2, <3>3, <3>4 DEF OpenDatabase
  <2>5. CASE BeginCopy(p)
    <3>1. starter'[p].pc = "copying" /\ starter[p].pc = "copy" /\ ~Stamp(p) /\ ~ChangeSchema(p)
      BY <2>5 DEF BeginCopy, Goto, Stamp, ChangeSchema, TypeOK
    <3>2. QED  BY <3>1, <2>1 DEF Migrating, Migrates
  <2>6. CASE EndCopy(p)
    <3>1. starter'[p].pc = "change" /\ starter[p].pc = "copying" /\ ~Stamp(p) /\ ~ChangeSchema(p)
          /\ starter'[p].at = starter[p].at
      BY <2>6 DEF EndCopy, Goto, Stamp, ChangeSchema, TypeOK
    <3>2. CopyName(Mine(p)) \in 1..Newest
      BY <2>3 DEF CopyName
    <3>3. Mine(p)' = [Mine(p) EXCEPT !.copies =
                       [Mine(p).copies EXCEPT ![CopyName(Mine(p))] = Mine(p).schema]]
      BY <2>6, <3>1 DEF EndCopy, Change, Mine, TypeOK
    <3>4. Mine(p)'.copies = [Mine(p).copies EXCEPT ![CopyName(Mine(p))] = Mine(p).schema]
      BY <3>3, <2>1 DEF Folders
    <3>5. Mine(p).copies \in [1..Newest -> 0..Newest \cup {None}]
      BY <2>1 DEF Folders
    <3>6. CopyName(Mine(p)') = CopyName(Mine(p))
      BY <2>1, <3>1 DEF CopyName
    <3>7. Mine(p)'.copies[CopyName(Mine(p)')] = Mine(p).schema
      BY <3>1, <3>2, <3>4, <3>5, <3>6 DEF Migrating, Migrates
    <3>8. QED  BY <3>1, <3>7, <2>1, <2>3 DEF Migrating, Migrates
  <2>7. CASE ChangeSchema(p)
    <3>1. starter'[p].pc = "stamp" /\ starter[p].pc = "change" /\ ~Stamp(p) /\ ~Gather(p) /\ ~BeginCopy(p)
          /\ ~EndCopy(p) /\ starter'[p].at = starter[p].at
      BY <2>7 DEF ChangeSchema, Goto, Stamp, Gather, BeginCopy, EndCopy, TypeOK
    <3>2. Mine(p)' = [Mine(p) EXCEPT !.schema = IF Mine(p).schema < starter[p].version
                                                THEN starter[p].version ELSE Mine(p).schema]
      BY <2>7, <3>1 DEF ChangeSchema, Change, Mine, TypeOK
    <3>3. Mine(p)'.schema >= starter[p].version
      BY <3>2, <2>1, <2>3, <1>2 DEF Folders
    <3>4. CopyName(Mine(p)') = CopyName(Mine(p))
      BY <2>1, <3>1 DEF CopyName
    <3>5. Mine(p).data => Mine(p).copies[CopyName(Mine(p))] = Mine(p).schema
      BY <3>1 DEF Migrating, Migrates
    <3>6. Mine(p).schema = Mine(p).was \/ Mine(p).cut
      <4>1. \A q \in Starters : starter[q].pc = "stamp" => starter[q].at # starter[p].at
        BY <3>1 DEF OwnFolder, Mine
      <4>2. QED  BY <1>4, <4>1 DEF LastSet, OwnFolder, Mine, TypeOK
    <3>7. Mine(p)'.data = Mine(p).data /\ Mine(p)'.copies = Mine(p).copies
          /\ Mine(p)'.was = Mine(p).was /\ Mine(p)'.cut = Mine(p).cut
      BY <3>1, <2>1
    <3>8. Mine(p)'.data => Mine(p)'.copies[CopyName(Mine(p)')] = Mine(p)'.was \/ Mine(p)'.cut
      BY <3>4, <3>5, <3>6, <3>7, Zenon
    <3>9. Mine(p)'.version < starter'[p].version
      BY <3>1, <2>1 DEF Migrating, Migrates
    <3>10. QED  BY <3>1, <3>3, <3>8, <3>9, <2>1 DEF Migrates
  <2>8. CASE Stamp(p)
    <3>1. starter'[p].pc = "serve" /\ starter'[p].at = starter[p].at
      BY <2>8 DEF Stamp, Goto, TypeOK
    <3>2. Mine(p)' = [Mine(p) EXCEPT !.version = starter[p].version, !.was = Mine(p).schema, !.cut = FALSE]
      BY <2>8, <3>1 DEF Stamp, Change, Mine, TypeOK
    <3>3. Mine(p)'.version = starter[p].version
      BY <3>2, <2>1 DEF Folders
    <3>4. QED  BY <3>1, <3>3, <2>1 DEF Migrates
  <2>9. CASE Gather(p)
    <3>1. starter'[p].pc = "serve" /\ starter[p].pc = "serve" /\ ~Stamp(p)
      BY <2>9 DEF Gather, Stamp
    <3>2. QED  BY <3>1, <2>1 DEF Migrating, Migrates
  <2>10. CASE \E k \in Kinds : CreateToken(p, k) \/ WriteToken(p, k) \/ ReadToken(p, k)
    <3>1. starter'[p].pc \in {"writeAdmin", "user", "writeUser", "open"}
      BY <2>10 DEF CreateToken, WriteToken, ReadToken, Goto, Writing, After, TypeOK
    <3>2. QED  BY <3>1 DEF Migrates
  <2>11. QED
    BY <1>4, <2>4, <2>5, <2>6, <2>7, <2>8, <2>9, <2>10 DEF Act, Start, Look, LookOld, Move, Lock
<1>5. QED  BY <1>3, <1>4

LEMMA ActLastSet ==
  ASSUME TypeOK, OwnFolder, LastSet, NEW p \in Starters, Act(p)
  PROVE  LastSet'
<1> USE StartersAssumption, MineType DEF At, Kinds, Inside
<1> SUFFICES ASSUME NEW n \in Names, folder'[n] # None, folder'[n].schema # folder'[n].was,
                    ~folder'[n].cut
             PROVE  \E q \in Starters : starter'[q].pc = "stamp" /\ starter'[q].at = n
  BY DEF LastSet, Exists
<1> DEFINE Ahead(m) == folder[m] # None /\ folder[m].schema # folder[m].was /\ ~folder[m].cut
<1>1. ASSUME NEW m \in Names, Ahead(m), ~(starter[p].pc = "stamp" /\ starter[p].at = m)
      PROVE  \E q \in Starters : q # p /\ starter'[q].pc = "stamp" /\ starter'[q].at = m
                                 /\ starter[q].pc = "stamp" /\ starter[q].at = m
  <2>1. PICK q \in Starters : starter[q].pc = "stamp" /\ starter[q].at = m
    BY <1>1 DEF LastSet, Exists
  <2>2. q # p
    BY <1>1, <2>1
  <2>3. QED  BY <2>1, <2>2, OthersKeep
<1>2. CASE End(p)
  <2>1. CASE Exists(n) /\ folder[n].owner = p
    <3>1. folder[n] \in Folders /\ folder'[n] = Freed(folder[n], p)
      BY <1>2, <2>1 DEF End, Exists, TypeOK
    <3>2. Ahead(n) /\ starter[p].pc # "stamp"
      BY <3>1, <2>1, FreedKeeps DEF Exists
    <3>3. QED  BY <1>1, <3>2
  <2>2. CASE ~(Exists(n) /\ folder[n].owner = p)
    <3>1. folder'[n] = folder[n]
      BY <1>2, <2>2 DEF End
    <3>2. ~(starter[p].pc = "stamp" /\ starter[p].at = n)
      BY <2>2 DEF OwnFolder, Mine
    <3>3. QED  BY <1>1, <3>1, <3>2
  <2>3. QED  BY <2>1, <2>2
<1>3. CASE Move(p)
  <2>1. CASE UNCHANGED folder
    BY <1>1, <1>3, <2>1 DEF Move
  <2>2. CASE ~UNCHANGED folder
    <3>1. n = "new" /\ folder'[n] = folder["old"] /\ folder["old"].owner = None
      BY <1>3, <2>2 DEF Move, Unmoved, Names
    <3>2. Ahead("old") /\ starter[p].pc # "stamp"
      BY <1>3, <3>1 DEF Move
    <3>3. PICK q \in Starters : starter[q].pc = "stamp" /\ starter[q].at = "old"
      BY <1>1, <3>2 DEF Names
    <3>4. folder["old"].owner = q
      BY <3>3 DEF OwnFolder, Mine
    <3>5. QED  BY <3>1, <3>4
  <2>3. QED  BY <2>1, <2>2
<1>4. CASE Lock(p)
  <2> DEFINE f == IF Mine(p) = None THEN Empty ELSE Mine(p)
  <2>1. starter[p].pc # "stamp"
    BY <1>4 DEF Lock
  <2>2. CASE n = starter[p].at
    <3>1. f \in Folders
      BY <2>2, EmptyType DEF TypeOK, Mine
    <3>2. folder'[n] = f \/ folder'[n] = [f EXCEPT !.owner = p]
      BY <1>4, <2>2 DEF Lock, Change, TypeOK
    <3>3. folder'[n].schema = f.schema /\ folder'[n].was = f.was /\ folder'[n].cut = f.cut
      <4> HIDE DEF f
      <4>1. QED  BY <3>1, <3>2 DEF Folders
    <3>4. Mine(p) # None
      BY <3>3 DEF Empty
    <3>5. Ahead(n)
      BY <2>2, <3>3, <3>4 DEF Mine
    <3>6. QED  BY <1>1, <2>1, <3>5
  <2>3. CASE n # starter[p].at
    BY <1>1, <1>4, <2>1, <2>3 DEF Lock, Change, TypeOK
  <2>4. QED  BY <2>2, <2>3
<1>5. CASE starter[p].pc \in Inside /\ ~End(p)
  <2>1. CASE n # starter[p].at
    <3>1. folder'[n] = folder[n]
      BY <1>5, <2>1, InsideChange DEF Change, TypeOK
    <3>2. QED  BY <1>1, <2>1, <3>1
  <2>2. CASE n = starter[p].at
    <3>1. Mine(p)' = folder'[n] /\ Mine(p) = folder[n] /\ starter'[p].at = n /\ folder[n] # None
      BY <1>5, <2>2, Effects DEF Mine, OwnFolder, Exists
    <3>2. CASE Stamp(p)
      <4>1. folder'[n] = [folder[n] EXCEPT !.version = starter[p].version, !.was = folder[n].schema,
                                          !.cut = FALSE]
        BY <2>2, <3>1, <3>2 DEF Stamp, Change, TypeOK
      <4>2. folder'[n].schema = folder'[n].was
        BY <1>5, <3>1, <4>1 DEF Folders
      <4>3. QED  BY <4>2
    <3>3. CASE ChangeSchema(p)
      BY <3>1, <3>3 DEF ChangeSchema, Goto, TypeOK
    <3>4. CASE ~Stamp(p) /\ ~ChangeSchema(p)
      <4>1. Ahead(n)
        BY <1>5, <3>1, <3>4, Effects
      <4>2. starter[p].pc # "stamp"
        BY <1>5, <3>4 DEF Act, Start, Look, LookOld, Move, Lock, CreateToken, WriteToken, ReadToken,
           OpenDatabase, BeginCopy, EndCopy, Gather, Writing
      <4>3. QED  BY <1>1, <4>1, <4>2
    <3>5. QED  BY <3>2, <3>3, <3>4
  <2>3. QED  BY <2>1, <2>2
<1>6. CASE Start(p) \/ Look(p) \/ LookOld(p)
  BY <1>1, <1>6 DEF Start, Look, LookOld
<1>7. QED
  BY <1>2, <1>3, <1>4, <1>5, <1>6 DEF Act, CreateToken, WriteToken, ReadToken, OpenDatabase,
     BeginCopy, EndCopy, ChangeSchema, Stamp, Gather, Writing

---------------------------------------------------------------------------
(* The two names.  No folder goes and no data goes but by a move, and a    *)
(* folder is made only where its absence is known, or where the other name *)
(* holds what there is to serve.                                           *)
Moves(p) == Move(p) /\ ~(Unmoved(p) /\ UNCHANGED folder)

LEMMA FoldersStay ==
  ASSUME OpeningInv, NEW p \in Starters, Act(p), ~Moves(p)
  PROVE  /\ \A n \in Names : Exists(n) => folder'[n] # None
         /\ \A n \in Names : Exists(n) /\ folder[n].data => folder'[n].data
         /\ folder'["new"] # None => Exists("new") \/ ~Exists("old")
         /\ folder'["old"] # None => Exists("old") \/ (Overtaken(p) /\ At(p, "lock"))
<1> USE NoneAssumption DEF OpeningInv
<1>1. CASE UNCHANGED folder
  BY <1>1 DEF Exists
<1>2. CASE Lock(p)
  <2> DEFINE f == IF Mine(p) = None THEN Empty ELSE Mine(p)
  <2>1. f \in Folders /\ starter[p].at \in Names /\ At(p, "lock")
    BY <1>2, EmptyType DEF Lock, Mine, TypeOK
  <2>2. PICK g : g \in Folders /\ Change(p, g) /\ g.data = f.data
    <3>1. Change(p, f) \/ Change(p, [f EXCEPT !.owner = p])
      BY <1>2 DEF Lock
    <3>2. [f EXCEPT !.owner = p] \in Folders /\ [f EXCEPT !.owner = p].data = f.data
      BY <2>1 DEF Folders
    <3>3. QED  BY <2>1, <3>1, <3>2
  <2>3. folder' = [folder EXCEPT ![starter[p].at] = g] /\ g # None
    BY <2>2 DEF Change
  <2>4. Mine(p) # None => g.data = folder[starter[p].at].data
    BY <2>2 DEF Mine
  <2>5. starter[p].at = "new" => Exists("new") \/ ~Exists("old")
    BY <2>1 DEF LooksTrue
  <2>6. starter[p].at = "old" => Exists("old") \/ Overtaken(p)
    BY <2>1 DEF LooksTrue, GoesByOld, At
  <2>7. QED  BY <2>1, <2>3, <2>4, <2>5, <2>6 DEF Mine, Exists, TypeOK, Names
<1>3. CASE End(p)
  BY <1>3, FreedKeeps DEF End, Exists, TypeOK, Names
<1>4. CASE starter[p].pc \in Inside /\ ~End(p)
  <2>1. PICK f \in Folders : Change(p, f)
    BY <1>4, InsideChange
  <2>2. starter[p].at \in Names /\ Exists(starter[p].at)
    BY <1>4 DEF OwnFolder, TypeOK
  <2>3. Mine(p)' = f /\ starter'[p].at = starter[p].at
    BY <1>4, <2>1, Effects DEF Change, Mine, TypeOK
  <2>4. folder[starter[p].at].data => f.data
    <3>1. CASE Gather(p)
      <4>1. Mine(p)' = [Mine(p) EXCEPT !.data = TRUE] /\ Mine(p) \in Folders
        BY <1>4, <2>3, <3>1, MineType DEF Gather, Change, Mine, TypeOK
      <4>2. QED  BY <4>1, <2>3 DEF Folders
    <3>2. CASE ~Gather(p)
      BY <1>4, <2>3, <3>2, Effects DEF Mine
    <3>3. QED  BY <3>1, <3>2
  <2>5. QED  BY <2>1, <2>2, <2>4 DEF Change, Exists, TypeOK
<1>5. QED
  BY <1>1, <1>2, <1>3, <1>4 DEF Moves, Act, Start, Look, LookOld, Move, Inside, Kinds, At,
     CreateToken, WriteToken, ReadToken, OpenDatabase, BeginCopy, EndCopy, ChangeSchema, Stamp, Gather, Writing

LEMMA MoveNames ==
  ASSUME OpeningInv, NEW p \in Starters, Moves(p)
  PROVE  (LooksTrue /\ LooksAlike /\ TwoNames)'
<1> USE NoneAssumption, StartersAssumption DEF OpeningInv, At
<1>1. /\ Exists("old") /\ ~Exists("new") /\ folder["old"].owner = None /\ folder["old"].data
      /\ folder'["new"] = folder["old"] /\ folder'["old"] = None
  BY DEF Moves, Move, TwoNames, Names
<1>2. \A q \in Starters : starter'[q] = IF q = p THEN [starter[p] EXCEPT !.pc = "lock"]
                                        ELSE IF Trusting(q) THEN [starter[q] EXCEPT !.overtaken = TRUE]
                                        ELSE starter[q]
  BY DEF Moves, Move
<1>3. starter[p].at = "new" /\ starter[p].pc = "move"
  BY DEF Moves, Move, LooksTrue
<1>4. starter'[p].pc = "lock" /\ starter'[p].at = "new"
  BY <1>2, <1>3 DEF TypeOK
<1>5. ASSUME NEW q \in Starters, q # p
      PROVE  /\ starter'[q].pc = starter[q].pc /\ starter'[q].at = starter[q].at
             /\ starter'[q].overtaken = (Trusting(q) \/ starter[q].overtaken)
  <2>1. starter[q].overtaken \in BOOLEAN
    BY DEF TypeOK
  <2>2. QED  BY <1>2, <1>5, <2>1 DEF TypeOK
<1>6. ASSUME NEW q \in Starters, GoesByOld(q)' PROVE Overtaken(q)'
  <2>1. q # p
    BY <1>4, <1>6 DEF GoesByOld
  <2>2. starter[q].pc \notin Inside \/ starter[q].at # "old"
    BY <1>1 DEF OwnFolder, Mine
  <2>3. Trusting(q)
    BY <1>5, <1>6, <2>1, <2>2 DEF GoesByOld, Trusting, Inside, LooksTrue, TypeOK, Places
  <2>4. QED  BY <1>5, <1>6, <2>1, <2>3 DEF Overtaken, GoesByOld
<1>7. \A q \in Starters : starter'[q].pc \in {"look", "lookOld", "move"} => starter'[q].at = "new"
  BY <1>4, <1>5 DEF LooksTrue
<1>8. ASSUME NEW q \in Starters, starter'[q].pc = "lookOld" PROVE Overtaken(q)'
  BY <1>4, <1>5, <1>8 DEF Overtaken, Trusting
<1>9. LooksTrue'
  BY <1>1, <1>6, <1>7 DEF LooksTrue, Exists
<1>10. LooksAlike'
  BY <1>8 DEF LooksAlike
<1>11. TwoNames'
  BY <1>1 DEF TwoNames, Exists
<1>12. QED  BY <1>9, <1>10, <1>11

LEMMA StayNames ==
  ASSUME OpeningInv, NEW p \in Starters, Act(p), ~Moves(p)
  PROVE  (LooksTrue /\ LooksAlike /\ TwoNames)'
<1> USE NoneAssumption DEF OpeningInv, At
<1>1. /\ \A n \in Names : Exists(n) => folder'[n] # None
      /\ \A n \in Names : Exists(n) /\ folder[n].data => folder'[n].data
      /\ folder'["new"] # None => Exists("new") \/ ~Exists("old")
      /\ folder'["old"] # None => Exists("old") \/ (Overtaken(p) /\ At(p, "lock"))
  BY FoldersStay
<1>2. "new" \in Names /\ "old" \in Names
  BY DEF Names
<1>3. \A q \in Starters : Overtaken(q) => Exists("new") /\ folder["new"].data
  BY DEF LooksTrue
<1>4. \A q \in Starters : q # p => starter'[q] = starter[q]
  BY DEF Moves, Act, Start, Look, LookOld, Move, Unmoved, Lock, CreateToken, WriteToken, ReadToken,
     OpenDatabase, BeginCopy, EndCopy, ChangeSchema, Stamp, Gather, End, Goto, TypeOK
<1>5. Overtaken(p)' => Overtaken(p)
  BY DEF Moves, Act, Start, Begun, Look, LookOld, Move, Unmoved, Lock, CreateToken, WriteToken, ReadToken,
     OpenDatabase, BeginCopy, EndCopy, ChangeSchema, Stamp, Gather, End, Goto, Overtaken, Kinds, Writing, TypeOK
<1>6. TwoNames'
  BY <1>1, <1>2, <1>3 DEF TwoNames, Exists
<1>7. LooksAlike'
  <2>1. starter'[p].pc = "lookOld" => ~Exists("new")
    BY DEF Moves, Act, Start, Begun, Look, LookOld, Move, Unmoved, Lock, CreateToken, WriteToken, ReadToken,
       OpenDatabase, BeginCopy, EndCopy, ChangeSchema, Stamp, Gather, End, Goto, Writing, After, Kinds, TypeOK
  <2>2. \A q \in Starters : Overtaken(q)' => Overtaken(q)
    BY <1>4, <1>5 DEF Overtaken
  <2>3. QED  BY <1>3, <1>4, <2>1, <2>2 DEF LooksAlike, Overtaken
<1>8. ASSUME NEW q \in Starters
      PROVE  /\ starter'[q].pc \in {"look", "lookOld", "move"} => starter'[q].at = "new"
             /\ Overtaken(q)' => folder'["new"] # None /\ folder'["new"].data
             /\ GoesByOld(q)' /\ ~Overtaken(q)' => folder'["old"] # None /\ folder'["old"].data
             /\ starter'[q].pc = "lookOld" /\ ~Overtaken(q)' /\ folder'["old"] # None => folder'["old"].data
             /\ starter'[q].pc = "lock" /\ starter'[q].at = "new"
                  => folder'["new"] # None \/ folder'["old"] = None
  <2>1. CASE q # p
    <3>1. starter'[q] = starter[q]
      BY <1>4, <2>1
    <3>2. At(q, "lookOld") /\ ~Overtaken(q) => ~Overtaken(p)
      BY DEF LooksAlike
    <3>3. QED  BY <1>1, <1>2, <1>3, <3>1, <3>2 DEF LooksTrue, Overtaken, GoesByOld, Exists
  <2>2. CASE q = p
    <3>1. CASE Start(p)
      BY <2>2, <3>1 DEF Start, Begun, Overtaken, GoesByOld, TypeOK
    <3>2. CASE Look(p)
      BY <2>2, <3>2, <1>3, <1>2 DEF Look, Goto, Overtaken, GoesByOld, LooksTrue, TwoNames, Exists, TypeOK
    <3>3. CASE LookOld(p)
      BY <2>2, <3>3, <1>3, <1>2 DEF LookOld, Goto, Overtaken, GoesByOld, LooksTrue, TwoNames, Exists, TypeOK
    <3>4. CASE Move(p)
      BY <2>2, <3>4, <1>3, <1>2 DEF Move, Moves, Unmoved, Overtaken, GoesByOld, LooksTrue, Exists, TypeOK
    <3>5. CASE End(p)
      BY <2>2, <3>5 DEF End, Goto, Overtaken, GoesByOld, TypeOK
    <3>6. CASE (Lock(p) \/ starter[p].pc \in Inside) /\ ~End(p)
      <4>1. /\ starter'[p].at = starter[p].at /\ starter'[p].overtaken = starter[p].overtaken
            /\ starter'[p].pc \notin {"look", "lookOld", "move", "lock"} /\ starter[p].pc # "off"
        BY <3>6 DEF Act, Start, Look, LookOld, Move, Lock, CreateToken, WriteToken, ReadToken, OpenDatabase,
           BeginCopy, EndCopy, ChangeSchema, Stamp, Gather, Goto, Writing, After, Kinds, Inside, TypeOK
      <4>2. QED  BY <2>2, <4>1, <1>1, <1>2, <1>3 DEF Overtaken, GoesByOld, LooksTrue, Exists
    <3>7. QED
      BY <3>1, <3>2, <3>3, <3>4, <3>5, <3>6 DEF Act, Inside, Kinds, CreateToken, WriteToken, ReadToken,
         OpenDatabase, BeginCopy, EndCopy, ChangeSchema, Stamp, Gather, Writing
  <2>3. QED  BY <2>1, <2>2
<1>9. LooksTrue'
  BY <1>8 DEF LooksTrue, Exists
<1>10. QED  BY <1>6, <1>7, <1>9

---------------------------------------------------------------------------
(* The theorems.                                                           *)

LEMMA InitInv == Init => OpeningInv
<1> USE NoneAssumption, SchemaAssumption DEF At
<1> SUFFICES ASSUME Init PROVE OpeningInv
  OBVIOUS
<1>1. TypeOK
  BY InitType
<1>2. \A p \in Starters : starter[p].pc = "off"
  BY DEF Init, Off, Begun
<1>3. \A n \in Names : Exists(n) => folder[n] \in Left
  BY DEF Init, Exists
<1>4. ASSUME NEW f \in Left PROVE f.data /\ f.schema >= f.version /\ f.schema >= 1 /\ f.was = f.schema
  BY <1>4 DEF Left
<1>5. \A n \in Names : Exists(n) =>
        /\ folder[n].data /\ folder[n].schema >= folder[n].version /\ folder[n].schema >= 1
        /\ folder[n].was = folder[n].schema
  BY <1>3, <1>4
<1>6. OwnFolder /\ TokensMade /\ Migrating
  BY <1>2 DEF OwnFolder, TokensMade, Migrating, Migrates, Inside
<1>7. SchemaAhead /\ LastSet /\ TwoNames
  BY <1>5 DEF SchemaAhead, LastSet, TwoNames, Names
<1>8. LooksTrue /\ LooksAlike
  BY <1>2 DEF LooksTrue, LooksAlike, Overtaken, GoesByOld
<1>9. QED  BY <1>1, <1>6, <1>7, <1>8 DEF OpeningInv

LEMMA NextInv == OpeningInv /\ [Next]_vars => OpeningInv'
<1> SUFFICES ASSUME OpeningInv, [Next]_vars PROVE OpeningInv'
  OBVIOUS
<1>1. ASSUME NEW p \in Starters, Act(p) PROVE OpeningInv'
  <2>1. TypeOK' /\ OwnFolder' /\ TokensMade' /\ SchemaAhead' /\ Migrating' /\ LastSet'
    BY <1>1, ActType, ActOwn, ActTokens, ActSchema, ActMigrating, ActLastSet DEF OpeningInv
  <2>2. (LooksTrue /\ LooksAlike /\ TwoNames)'
    BY <1>1, MoveNames, StayNames
  <2>3. QED  BY <2>1, <2>2 DEF OpeningInv
<1>2. CASE UNCHANGED vars
  BY <1>2 DEF vars, OpeningInv, TypeOK, OwnFolder, TokensMade, SchemaAhead, Migrating, Migrates, LastSet, LooksTrue,
     LooksAlike, TwoNames, Overtaken, GoesByOld, Exists, Mine, At
<1>3. QED  BY <1>1, <1>2 DEF Next, Act

(* Whatever starts have begun, failed or been killed, and in whatever      *)
(* order, each is where its folder, its tokens, its copy and its schema    *)
(* let it be (app.rs prepare_server_data_dir; store.rs migrate).           *)
THEOREM OpeningInvariant == Spec => []OpeningInv
BY InitInv, NextInv, PTL DEF Spec

(* A server in service has the folder in which the install has gathered    *)
(* its data, with its tokens and a schema it can read, unless the move of  *)
(* another start has overtaken it (app.rs migrate_dir_once).               *)
THEOREM DataServed == Spec => []ServesTheData
<1>1. OpeningInv => ServesTheData
  <2> SUFFICES ASSUME OpeningInv, NEW p \in Starters, starter[p].pc = "serve"
               PROVE  /\ Mine(p).owner = p
                      /\ Mine(p).version = starter[p].version /\ Mine(p).schema >= starter[p].version
                      /\ \A k \in Kinds : Mine(p).token[k] = "whole"
                      /\ (\E n \in Names : Exists(n) /\ folder[n].data)
                           => Mine(p).data \/ starter[p].overtaken
    BY DEF ServesTheData, Serving, At
  <2> USE DEF OpeningInv, Inside, At
  <2>1. Mine(p).owner = p /\ Exists(starter[p].at) /\ starter[p].at \in Names
    BY DEF OwnFolder, TypeOK
  <2>2. Mine(p).version = starter[p].version
    BY DEF Migrating, Migrates
  <2>3. Mine(p).schema >= Mine(p).version
    BY <2>1 DEF SchemaAhead, Mine
  <2>4. \A k \in Kinds : Mine(p).token[k] = "whole"
    BY DEF TokensMade, Kinds
  <2>5. ASSUME NEW n \in Names, Exists(n), folder[n].data PROVE Mine(p).data \/ starter[p].overtaken
    <3>1. CASE starter[p].at = "old"
      BY <3>1 DEF LooksTrue, GoesByOld, Overtaken, Mine
    <3>2. CASE starter[p].at = "new"
      BY <2>1, <2>5, <3>2 DEF TwoNames, Mine, Names
    <3>3. QED  BY <2>1, <3>1, <3>2 DEF Names
  <2>6. QED  BY <2>2, <2>1, <2>3, <2>4, <2>5
<1>2. QED  BY <1>1, OpeningInvariant, PTL

(* The schema of a database that holds data changes only when the copy is  *)
(* that database, and its version is set only when the copy is what it was *)
(* under the old version, or a start has died between the two (store.rs    *)
(* backup_db, migrate).                                                    *)
THEOREM Copied == Spec => CopiedBeforeChange
<1> DEFINE Kept == \A n \in Names : LET f == folder[n]
                                        g == folder'[n]
                                    IN f # None /\ g # None /\ f.data =>
                                         /\ g.schema # f.schema => f.copies[CopyName(f)] = f.schema
                                         /\ g.version # f.version
                                              => f.copies[CopyName(f)] = f.was \/ f.cut
<1>1. OpeningInv /\ [Next]_vars => [Kept]_vars
  <2> SUFFICES ASSUME OpeningInv, NEW p \in Starters, Act(p), NEW n \in Names,
                      folder[n] # None, folder'[n] # None, folder[n].data
               PROVE  /\ folder'[n].schema # folder[n].schema
                           => folder[n].copies[CopyName(folder[n])] = folder[n].schema
                      /\ folder'[n].version # folder[n].version
                           => folder[n].copies[CopyName(folder[n])] = folder[n].was \/ folder[n].cut
    BY DEF Next, Act
  <2> USE DEF OpeningInv, At
  <2> DEFINE Same == folder'[n].version = folder[n].version /\ folder'[n].schema = folder[n].schema
  <2>1. folder[n] \in Folders
    BY DEF TypeOK
  <2>2. CASE starter[p].pc \in Inside /\ ~End(p)
    <3>1. CASE n # starter[p].at
      BY <2>2, <3>1, InsideChange DEF Change, TypeOK
    <3>2. CASE n = starter[p].at
      <4>1. folder'[n].version # folder[n].version => Stamp(p)
        BY <2>2, <3>2, Effects DEF Mine
      <4>2. folder'[n].schema # folder[n].schema => ChangeSchema(p)
        BY <2>2, <3>2, Effects DEF Mine
      <4>3. QED  BY <3>2, <4>1, <4>2 DEF Stamp, ChangeSchema, Migrating, Migrates, Mine
    <3>3. QED  BY <3>1, <3>2
  <2>3. CASE Lock(p)
    <3>1. Same
      BY <2>1, <2>3 DEF Lock, Change, Mine, Folders, TypeOK
    <3>2. QED  BY <3>1
  <2>4. CASE Move(p)
    <3>1. Same
      BY <2>4 DEF Move, Exists, Names
    <3>2. QED  BY <3>1
  <2>5. CASE End(p)
    <3>1. Same
      BY <2>1, <2>5, FreedKeeps DEF End, Exists
    <3>2. QED  BY <3>1
  <2>6. CASE UNCHANGED folder
    BY <2>6
  <2>7. QED
    BY <2>2, <2>3, <2>4, <2>5, <2>6 DEF Act, Start, Look, LookOld, Inside, Kinds, CreateToken, WriteToken,
       ReadToken, OpenDatabase, BeginCopy, EndCopy, ChangeSchema, Stamp, Gather, Writing
<1>2. QED  BY <1>1, OpeningInvariant, PTL DEF Spec, CopiedBeforeChange
===============================================================================
