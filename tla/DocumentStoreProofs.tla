------------------------- MODULE DocumentStoreProofs -------------------------
(***************************************************************************)
(* Proofs about DocumentStore, for any number of documents, seeds, clients *)
(* and kills.  The invariant DocInv says what each step of a request may   *)
(* rely on although the others ran since its last step: what a request     *)
(* holds (Holds), what no two of them share (Apart), and that nobody is    *)
(* served while the API is down or seeds (SeedInv).  MatchInv, at the end, *)
(* is about requests that come one at a time.                              *)
(***************************************************************************)
EXTENDS DocumentStore, TLAPS

Kinds == {"none", "add", "update", "delete", "drop"}
Pcs == {"idle", "loaded", "flush", "write", "writing", "commit", "unlink", "rmtree"}
Op == [kind : Kinds, pc : Pcs, doc : SUBSET Docs, content : Versions \cup {"none"}]

\* The document of a request for one.
One(o, d) == d \in Docs /\ o.doc = {d}

AddHolds(o) ==
    /\ o.content \in Versions
    /\ \E d \in Docs \ Seeds :
          /\ One(o, d)
          /\ row[d] = "unused"
          /\ o.pc \in {"writing", "commit"} => file[d] # "none"
    /\ o.pc \in {"write", "writing", "commit"} => collection

UpdateHolds(o) ==
    o.content \in Versions /\ \E d \in Docs : One(o, d) /\ row[d] # "unused"

DeleteHolds(o) ==
    \E d \in Docs :
        /\ One(o, d)
        /\ row[d] # "unused"
        /\ o.pc = "unlink" => row[d] = "gone"

DropHolds(o) ==
    /\ \A d \in o.doc : row[d] # "unused"
    /\ o.pc = "rmtree" => ~collection

Holds(o) ==
    /\ o.kind = "none" => o = NoOp
    /\ o.kind = "add" => AddHolds(o)
    /\ o.kind = "update" => UpdateHolds(o)
    /\ o.kind = "delete" => DeleteHolds(o)
    /\ o.kind = "drop" => DropHolds(o)

\* Nobody else has the document of an upload.
Apart ==
    \A c, e \in Clients : c # e /\ op[c].kind = "add" => op[c].doc \cap op[e].doc = {}

SeedInv ==
    /\ api # "serving" => op = [c \in Clients |-> NoOp]
    /\ api = "seeding" => ~collection
    /\ api # "seeding" => toSeed = {} /\ seeded = {}
    /\ \A d \in seeded : file[d] # "none"

DocInv ==
    /\ TypeOK
    /\ \A c \in Clients : Holds(op[c])
    /\ Apart
    /\ SeedInv
    /\ RowHasFile
    /\ DeletedCollectionIsEmpty

-----------------------------------------------------------------------------
(* What the three ways to go on do to the requests. *)

LEMMA NoOpTyped == NoOp \in Op
BY DEF NoOp, Op, Kinds, Pcs

LEMMA TypedOps == TypeOK => op \in [Clients -> Op]
BY DEF TypeOK, Op, Kinds, Pcs

LEMMA DocOfOne ==
    ASSUME NEW c \in Clients, NEW d, One(op[c], d)
    PROVE  DocOf(c) = d
BY DEF DocOf, One

\* Vocabulary and contents do not mix.
LEMMA StoredIsUsed ==
    ASSUME NEW d \in Docs, Stored(d)
    PROVE  row[d] # "unused" /\ row[d] # "gone"
BY DocumentStoreAssumption DEF Stored

LEMMA BeginDoes ==
    ASSUME TypeOK, NEW c \in Clients, NEW kind \in Kinds, NEW S \in SUBSET Docs,
           NEW v \in Versions \cup {"none"}, Begin(c, kind, S, v)
    PROVE  /\ op' \in [Clients -> Op]
           /\ op'[c] = [kind |-> kind, pc |-> "loaded", doc |-> S, content |-> v]
           /\ \A e \in Clients \ {c} : op'[e] = op[e]
           /\ op[c] = NoOp
           /\ api = "serving"
           /\ alone' \in BOOLEAN
<1> op \in [Clients -> Op] BY TypedOps
<1> QED BY DEF Begin, Op, Pcs, TypeOK

LEMMA GotoDoes ==
    ASSUME TypeOK, NEW c \in Clients, NEW p \in Pcs, Goto(c, p)
    PROVE  /\ op' \in [Clients -> Op]
           /\ op'[c].kind = op[c].kind
           /\ op'[c].doc = op[c].doc
           /\ op'[c].content = op[c].content
           /\ op'[c].pc = p
           /\ \A e \in Clients \ {c} : op'[e] = op[e]
           /\ alone' = alone
<1> op \in [Clients -> Op] BY TypedOps
<1> QED BY DEF Goto, Op

LEMMA AnswerDoes ==
    ASSUME TypeOK, NEW c \in Clients, Answer(c)
    PROVE  /\ op' \in [Clients -> Op]
           /\ op'[c] = NoOp
           /\ \A e \in Clients \ {c} : op'[e] = op[e]
           /\ alone' = alone
<1> op \in [Clients -> Op] BY TypedOps
<1> QED BY NoOpTyped DEF Answer

\* What a request holds outlives a step of another one that keeps rows used and
\* deletions done, and leaves the document of an upload and its lock alone.
LEMMA Frame ==
    ASSUME TypeOK, NEW e \in Clients, Holds(op[e]), op'[e] = op[e],
           \A d \in Docs :
               /\ row[d] # "unused" => row'[d] # "unused"
               /\ row[d] = "gone" => row'[d] = "gone",
           op[e].kind = "add" =>
               \A d \in op[e].doc :
                   /\ row'[d] = row[d]
                   /\ op[e].pc \in {"writing", "commit"} /\ file[d] # "none"
                         => file'[d] # "none",
           collection' = collection \/ (~collection' /\ ~Locked)
    PROVE  Holds(op[e])'
<1> op[e] \in Op BY TypedOps
<1>1. CASE op[e].kind = "add"
  <2>1. op[e].pc \in {"write", "writing", "commit"} => collection'
    BY <1>1 DEF Holds, AddHolds, Locked
  <2>2. PICK d \in Docs \ Seeds :
            /\ One(op[e], d)
            /\ row[d] = "unused"
            /\ op[e].pc \in {"writing", "commit"} => file[d] # "none"
    BY <1>1 DEF Holds, AddHolds
  <2>3. /\ row'[d] = "unused"
        /\ op[e].pc \in {"writing", "commit"} => file'[d] # "none"
    BY <1>1, <2>2 DEF One
  <2> QED BY <1>1, <2>1, <2>2, <2>3 DEF Holds, AddHolds, One
<1>2. CASE op[e].kind = "update"
  <2>1. PICK d \in Docs : One(op[e], d) /\ row[d] # "unused"
    BY <1>2 DEF Holds, UpdateHolds
  <2>2. row'[d] # "unused"
    BY <2>1
  <2> QED BY <1>2, <2>1, <2>2 DEF Holds, UpdateHolds, One
<1>3. CASE op[e].kind = "delete"
  <2>1. PICK d \in Docs :
            /\ One(op[e], d)
            /\ row[d] # "unused"
            /\ op[e].pc = "unlink" => row[d] = "gone"
    BY <1>3 DEF Holds, DeleteHolds
  <2>2. row'[d] # "unused" /\ (row[d] = "gone" => row'[d] = "gone")
    BY <2>1
  <2> QED BY <1>3, <2>1, <2>2 DEF Holds, DeleteHolds, One
<1>4. CASE op[e].kind = "drop"
  BY <1>4 DEF Holds, DropHolds, Op
<1>5. CASE op[e].kind = "none"
  BY <1>5 DEF Holds, NoOp
<1> QED BY <1>1, <1>2, <1>3, <1>4, <1>5 DEF Op, Kinds

\* Requests stay apart when one goes on or is answered.
LEMMA ApartKept ==
    ASSUME TypeOK, Apart, NEW c \in Clients,
           \A e \in Clients \ {c} : op'[e] = op[e],
           op'[c] = NoOp \/ (op'[c].kind = op[c].kind /\ op'[c].doc = op[c].doc)
    PROVE  Apart'
BY DEF Apart, NoOp

-----------------------------------------------------------------------------
(* The steps of a request. *)

Rows == [Docs -> Versions \cup {"unused", "gone"}]
Files == [Docs -> Versions \cup {"none", "partial"}]

\* A step of request c keeps the invariant if it keeps what the others hold.
LEMMA Step ==
    ASSUME DocInv, NEW c \in Clients, api = "serving",
           UNCHANGED <<startup, crashes>>, alone' \in BOOLEAN,
           op' \in [Clients -> Op], \A e \in Clients \ {c} : op'[e] = op[e],
           Apart', Holds(op[c])',
           collection' = collection \/ (~collection' /\ ~Locked),
           dir' \in BOOLEAN, row' \in Rows, file' \in Files,
           collection' \in BOOLEAN,
           ~dir' => \A d \in Docs : file'[d] = "none",
           \A d \in Docs :
               /\ row[d] # "unused" => row'[d] # "unused"
               /\ row[d] = "gone" => row'[d] = "gone",
           \A e \in Clients \ {c} : op[e].kind = "add" =>
               \A d \in op[e].doc :
                   /\ row'[d] = row[d]
                   /\ op[e].pc \in {"writing", "commit"} /\ file[d] # "none"
                         => file'[d] # "none",
           RowHasFile', DeletedCollectionIsEmpty'
    PROVE  DocInv'
<1>1. \A e \in Clients \ {c} : Holds(op[e])'
  <2>1. SUFFICES ASSUME NEW e \in Clients \ {c} PROVE Holds(op[e])'
    OBVIOUS
  <2>2. TypeOK /\ Holds(op[e])
    BY DEF DocInv
  <2> QED BY <2>2, Frame
<1>2. \A e \in Clients : Holds(op[e])'
  BY <1>1
<1>3. TypeOK'
  BY DEF DocInv, TypeOK, startup, Rows, Files, Op, Kinds, Pcs
<1>4. SeedInv'
  BY DEF DocInv, SeedInv, startup
<1> QED BY <1>2, <1>3, <1>4 DEF DocInv

\* A step that changes neither the tables nor a file.
LEMMA QuietStep ==
    ASSUME DocInv, NEW c \in Clients, api = "serving",
           UNCHANGED <<startup, crashes, row, file, collection>>,
           alone' \in BOOLEAN, dir' \in BOOLEAN, dir => dir',
           op' \in [Clients -> Op], \A e \in Clients \ {c} : op'[e] = op[e],
           Apart', Holds(op[c])'
    PROVE  DocInv'
<1>1. RowHasFile' /\ DeletedCollectionIsEmpty'
  BY DEF DocInv, RowHasFile, DeletedCollectionIsEmpty, Stored
<1>2. /\ row' \in Rows /\ file' \in Files /\ collection' \in BOOLEAN
      /\ ~dir' => \A d \in Docs : file'[d] = "none"
  BY DEF DocInv, TypeOK, Rows, Files
<1> QED BY <1>1, <1>2, Step

\* A request is served only by a serving API.
LEMMA ServedBy ==
    ASSUME DocInv, NEW c \in Clients, op[c].kind # "none"
    PROVE  api = "serving"
BY DEF DocInv, SeedInv, NoOp

-----------------------------------------------------------------------------
(* Requests begin. *)

LEMMA AddLoadKeeps ==
    ASSUME DocInv, NEW c \in Clients, NEW d \in Docs, NEW v \in Versions, AddLoad(c, d, v)
    PROVE  DocInv'
<1>0. TypeOK BY DEF DocInv
<1>1. Fresh(d) /\ Begin(c, "add", {d}, v) BY DEF AddLoad
<1>2. /\ op' \in [Clients -> Op]
      /\ op'[c] = [kind |-> "add", pc |-> "loaded", doc |-> {d}, content |-> v]
      /\ \A e \in Clients \ {c} : op'[e] = op[e]
      /\ op[c] = NoOp
      /\ api = "serving"
      /\ alone' \in BOOLEAN
  BY <1>0, <1>1, BeginDoes DEF Kinds
<1>3. Holds(op[c])'
  BY <1>1, <1>2 DEF Holds, AddHolds, One, Fresh, AddLoad
<1>4. Apart'
  BY <1>1, <1>2 DEF DocInv, Apart, Fresh
<1> QED BY <1>2, <1>3, <1>4, QuietStep DEF AddLoad, DocInv, TypeOK

LEMMA UpdateLoadKeeps ==
    ASSUME DocInv, NEW c \in Clients, NEW d \in Docs, NEW v \in Versions, UpdateLoad(c, d, v)
    PROVE  DocInv'
<1>0. TypeOK BY DEF DocInv
<1>1. Stored(d) /\ Begin(c, "update", {d}, v) BY DEF UpdateLoad
<1>2. /\ op' \in [Clients -> Op]
      /\ op'[c] = [kind |-> "update", pc |-> "loaded", doc |-> {d}, content |-> v]
      /\ \A e \in Clients \ {c} : op'[e] = op[e]
      /\ op[c] = NoOp
      /\ api = "serving"
      /\ alone' \in BOOLEAN
  BY <1>0, <1>1, BeginDoes DEF Kinds
<1>3. row[d] # "unused" BY <1>1, StoredIsUsed
<1>4. Holds(op[c])'
  BY <1>2, <1>3 DEF Holds, UpdateHolds, One, UpdateLoad
<1>5. \A e \in Clients : op[e].kind = "add" => d \notin op[e].doc
  BY <1>3 DEF DocInv, Holds, AddHolds, One
<1>6. Apart'
  BY <1>2, <1>5 DEF DocInv, Apart
<1> QED BY <1>2, <1>4, <1>6, QuietStep DEF UpdateLoad, DocInv, TypeOK

LEMMA DeleteLoadKeeps ==
    ASSUME DocInv, NEW c \in Clients, NEW d \in Docs, DeleteLoad(c, d)
    PROVE  DocInv'
<1>0. TypeOK BY DEF DocInv
<1>1. Stored(d) /\ Begin(c, "delete", {d}, "none") BY DEF DeleteLoad
<1>2. /\ op' \in [Clients -> Op]
      /\ op'[c] = [kind |-> "delete", pc |-> "loaded", doc |-> {d}, content |-> "none"]
      /\ \A e \in Clients \ {c} : op'[e] = op[e]
      /\ op[c] = NoOp
      /\ api = "serving"
      /\ alone' \in BOOLEAN
  BY <1>0, <1>1, BeginDoes DEF Kinds
<1>3. row[d] # "unused" BY <1>1, StoredIsUsed
<1>4. Holds(op[c])'
  BY <1>2, <1>3 DEF Holds, DeleteHolds, One, DeleteLoad
<1>5. \A e \in Clients : op[e].kind = "add" => d \notin op[e].doc
  BY <1>3 DEF DocInv, Holds, AddHolds, One
<1>6. Apart'
  BY <1>2, <1>5 DEF DocInv, Apart
<1> QED BY <1>2, <1>4, <1>6, QuietStep DEF DeleteLoad, DocInv, TypeOK

LEMMA DropLoadKeeps ==
    ASSUME DocInv, NEW c \in Clients, DropLoad(c)
    PROVE  DocInv'
<1> DEFINE S == {d \in Docs : Stored(d)}
<1>0. TypeOK BY DEF DocInv
<1>1. Begin(c, "drop", S, "none") BY DEF DropLoad
<1>2. /\ op' \in [Clients -> Op]
      /\ op'[c] = [kind |-> "drop", pc |-> "loaded", doc |-> S, content |-> "none"]
      /\ \A e \in Clients \ {c} : op'[e] = op[e]
      /\ op[c] = NoOp
      /\ api = "serving"
      /\ alone' \in BOOLEAN
  BY <1>0, <1>1, BeginDoes DEF Kinds
<1>3. \A d \in S : d \in Docs /\ row[d] # "unused" BY StoredIsUsed
<1> HIDE DEF S
<1>4. Holds(op[c])'
  BY <1>2, <1>3 DEF Holds, DropHolds, DropLoad
<1>5. \A e \in Clients : op[e].kind = "add" => op[e].doc \cap S = {}
  BY <1>3 DEF DocInv, Holds, AddHolds, One
<1>6. Apart'
  BY <1>2, <1>5 DEF DocInv, Apart
<1> QED BY <1>2, <1>4, <1>6, QuietStep DEF DropLoad, DocInv, TypeOK

-----------------------------------------------------------------------------
(* Requests go on.  The document of the request is d. *)

LEMMA AddMakeDirKeeps ==
    ASSUME DocInv, NEW c \in Clients, AddMakeDir(c)
    PROVE  DocInv'
<1>0. TypeOK /\ op[c].kind = "add" /\ Goto(c, "flush") BY DEF DocInv, AddMakeDir, At
<1>1. /\ op' \in [Clients -> Op]
      /\ op'[c].kind = "add" /\ op'[c].doc = op[c].doc
      /\ op'[c].content = op[c].content /\ op'[c].pc = "flush"
      /\ \A e \in Clients \ {c} : op'[e] = op[e]
      /\ alone' = alone
  BY <1>0, GotoDoes DEF Pcs
<1>2. Holds(op[c])'
  BY <1>0, <1>1 DEF DocInv, Holds, AddHolds, One, AddMakeDir
<1>3. Apart'
  BY <1>0, <1>1, ApartKept DEF DocInv
<1>4. api = "serving" BY <1>0, ServedBy
<1> QED BY <1>1, <1>2, <1>3, <1>4, QuietStep DEF AddMakeDir, DocInv, TypeOK

LEMMA AddFlushKeeps ==
    ASSUME DocInv, NEW c \in Clients, AddFlush(c)
    PROVE  DocInv'
<1>0. TypeOK /\ op[c].kind = "add" BY DEF DocInv, AddFlush, At
<1>1. api = "serving" BY <1>0, ServedBy
<1>2. CASE collection /\ Goto(c, "write")
  <2>1. /\ op' \in [Clients -> Op]
        /\ op'[c].kind = "add" /\ op'[c].doc = op[c].doc
        /\ op'[c].content = op[c].content /\ op'[c].pc = "write"
        /\ \A e \in Clients \ {c} : op'[e] = op[e]
        /\ alone' = alone
    BY <1>0, <1>2, GotoDoes DEF Pcs
  <2>2. Holds(op[c])'
    BY <1>0, <1>2, <2>1 DEF DocInv, Holds, AddHolds, One, AddFlush
  <2>3. Apart'
    BY <1>0, <2>1, ApartKept DEF DocInv
  <2> QED BY <1>1, <2>1, <2>2, <2>3, QuietStep DEF AddFlush, DocInv, TypeOK
<1>3. CASE Answer(c)
  <2>1. /\ op' \in [Clients -> Op]
        /\ op'[c] = NoOp
        /\ \A e \in Clients \ {c} : op'[e] = op[e]
        /\ alone' = alone
    BY <1>0, <1>3, AnswerDoes
  <2>2. Holds(op[c])'
    BY <2>1 DEF Holds, NoOp
  <2>3. Apart'
    BY <1>0, <2>1, ApartKept DEF DocInv
  <2> QED BY <1>1, <2>1, <2>2, <2>3, QuietStep DEF AddFlush, DocInv, TypeOK
<1> QED BY <1>2, <1>3 DEF AddFlush

LEMMA UpdateMakeDirKeeps ==
    ASSUME DocInv, NEW c \in Clients, UpdateMakeDir(c)
    PROVE  DocInv'
<1>0. TypeOK /\ op[c].kind = "update" /\ Goto(c, "flush") BY DEF DocInv, UpdateMakeDir, At
<1>1. /\ op' \in [Clients -> Op]
      /\ op'[c].kind = "update" /\ op'[c].doc = op[c].doc
      /\ op'[c].content = op[c].content /\ op'[c].pc = "flush"
      /\ \A e \in Clients \ {c} : op'[e] = op[e]
      /\ alone' = alone
  BY <1>0, GotoDoes DEF Pcs
<1>2. Holds(op[c])'
  BY <1>0, <1>1 DEF DocInv, Holds, UpdateHolds, One, UpdateMakeDir
<1>3. Apart'
  BY <1>0, <1>1, ApartKept DEF DocInv
<1>4. api = "serving" BY <1>0, ServedBy
<1> QED BY <1>1, <1>2, <1>3, <1>4, QuietStep DEF UpdateMakeDir, DocInv, TypeOK

\* A step that changes only the file of its own document, and removes no file.
LEMMA FileStep ==
    ASSUME DocInv, NEW c \in Clients, NEW d \in Docs, One(op[c], d),
           api = "serving",
           UNCHANGED <<startup, crashes, row, dir, collection>>,
           NEW text \in Versions \cup {"none", "partial"},
           file' = [file EXCEPT ![d] = text],
           text = "none" => file[d] = "none",
           ~dir => text = "none",
           alone' \in BOOLEAN,
           op' \in [Clients -> Op], \A e \in Clients \ {c} : op'[e] = op[e],
           Apart', Holds(op[c])'
    PROVE  DocInv'
<1>1. TypeOK /\ RowHasFile /\ DeletedCollectionIsEmpty BY DEF DocInv
<1>2. file \in Files /\ row \in Rows BY <1>1 DEF TypeOK, Files, Rows
<1>3. /\ file' \in Files
      /\ \A x \in Docs : file[x] # "none" => file'[x] # "none"
      /\ ~dir' => \A x \in Docs : file'[x] = "none"
  BY <1>1, <1>2 DEF Files, TypeOK
<1>4. RowHasFile'
  BY <1>1, <1>3 DEF RowHasFile, Stored
<1>5. DeletedCollectionIsEmpty'
  BY <1>1 DEF DeletedCollectionIsEmpty, Stored
<1>6. dir' \in BOOLEAN /\ collection' \in BOOLEAN
  BY <1>1 DEF TypeOK
<1>7. \A e \in Clients : \A x \in op[e].doc : x \in Docs
  BY <1>1, TypedOps DEF Op
<1> QED BY <1>2, <1>3, <1>4, <1>5, <1>6, <1>7, Step

\* The document of an upload or an edit, and its content.
LEMMA Writes ==
    ASSUME DocInv, NEW c \in Clients, op[c].kind \in {"add", "update"}
    PROVE  /\ DocOf(c) \in Docs /\ One(op[c], DocOf(c))
           /\ op[c].content \in Versions
<1>1. Holds(op[c]) BY DEF DocInv
<1>2. PICK d \in Docs : One(op[c], d)
  BY <1>1 DEF Holds, AddHolds, UpdateHolds
<1>3. DocOf(c) = d BY <1>2, DocOfOne
<1> QED BY <1>1, <1>2, <1>3 DEF Holds, AddHolds, UpdateHolds

LEMMA OpenFileKeeps ==
    ASSUME DocInv, NEW c \in Clients, op[c].kind \in {"add", "update"},
           op[c].pc = "write", OpenFile(c, "writing")
    PROVE  DocInv'
<1>0. TypeOK BY DEF DocInv
<1>. PICK d \in Docs : d = DocOf(c) BY Writes
<1>1. One(op[c], d) /\ op[c].content \in Versions BY Writes
<1>2. api = "serving" BY ServedBy
<1>3. CASE dir /\ file' = [file EXCEPT ![d] = "partial"] /\ Goto(c, "writing")
  <2>1. /\ op' \in [Clients -> Op]
        /\ op'[c].kind = op[c].kind /\ op'[c].doc = op[c].doc
        /\ op'[c].content = op[c].content /\ op'[c].pc = "writing"
        /\ \A e \in Clients \ {c} : op'[e] = op[e]
        /\ alone' = alone
    BY <1>0, <1>3, GotoDoes DEF Pcs
  <2>2. file'[d] = "partial"
    BY <1>0, <1>1, <1>3 DEF TypeOK
  <2>3. UNCHANGED <<collection, row, dir, crashes, startup>>
    BY DEF OpenFile
  <2>4. Holds(op[c])'
    <3>1. CASE op[c].kind = "add"
      <4>1. AddHolds(op[c]) BY <3>1 DEF DocInv, Holds
      <4>2. d \in Docs \ Seeds /\ row[d] = "unused"
        BY <4>1, <1>1 DEF AddHolds, One
      <4>3. "partial" # "none" OBVIOUS
      <4>4. collection BY <4>1 DEF AddHolds
      <4>5. /\ One(op[c], d)' /\ (row[d] = "unused")'
            /\ file'[d] # "none" /\ collection'
        BY <1>1, <2>1, <2>2, <2>3, <4>2, <4>3, <4>4 DEF One
      <4> QED BY <1>1, <2>1, <3>1, <4>2, <4>5 DEF Holds, AddHolds, One
    <3>2. CASE op[c].kind = "update"
      BY <3>2, <2>1, <2>3 DEF DocInv, Holds, UpdateHolds, One
    <3> QED BY <3>1, <3>2
  <2>5. Apart'
    BY <1>0, <2>1, ApartKept DEF DocInv
  <2>6. alone' \in BOOLEAN BY <1>0, <2>1 DEF TypeOK
  <2> QED BY <1>1, <1>2, <1>3, <2>1, <2>3, <2>4, <2>5, <2>6, FileStep
<1>4. CASE Answer(c) /\ UNCHANGED file
  <2>1. /\ op' \in [Clients -> Op]
        /\ op'[c] = NoOp
        /\ \A e \in Clients \ {c} : op'[e] = op[e]
        /\ alone' = alone
    BY <1>0, <1>4, AnswerDoes
  <2>2. Holds(op[c])'
    BY <2>1 DEF Holds, NoOp
  <2>3. Apart'
    BY <1>0, <2>1, ApartKept DEF DocInv
  <2> QED BY <1>2, <1>4, <2>1, <2>2, <2>3, QuietStep DEF OpenFile, DocInv, TypeOK
<1> QED BY <1>3, <1>4 DEF OpenFile

LEMMA WriteFileKeeps ==
    ASSUME DocInv, NEW c \in Clients, op[c].kind \in {"add", "update"},
           op[c].pc = "writing", WriteFile(c),
           UNCHANGED <<collection, row, dir, crashes, startup>>,
           \/ op[c].kind = "add" /\ Goto(c, "commit")
           \/ Answer(c)
    PROVE  DocInv'
<1>0. TypeOK BY DEF DocInv
<1>. PICK d \in Docs : d = DocOf(c) BY Writes
<1>1. One(op[c], d) /\ op[c].content \in Versions BY Writes
<1>2. api = "serving" BY ServedBy
<1> DEFINE text == IF file[d] = "none" THEN "none" ELSE op[c].content
<1>3. /\ text \in Versions \cup {"none", "partial"}
      /\ text = "none" <=> file[d] = "none"
      /\ ~dir => text = "none"
  BY <1>0, <1>1, DocumentStoreAssumption DEF TypeOK
<1>4. file' = [file EXCEPT ![d] = text]
  BY DEF WriteFile
<1>5. file'[d] = text
  BY <1>0, <1>4 DEF TypeOK
<1> HIDE DEF text
<1>6. CASE op[c].kind = "add" /\ Goto(c, "commit")
  <2>1. /\ op' \in [Clients -> Op]
        /\ op'[c].kind = "add" /\ op'[c].doc = op[c].doc
        /\ op'[c].content = op[c].content /\ op'[c].pc = "commit"
        /\ \A e \in Clients \ {c} : op'[e] = op[e]
        /\ alone' = alone
    BY <1>0, <1>6, GotoDoes DEF Pcs
  <2>2. Holds(op[c])'
    <3>1. AddHolds(op[c]) BY <1>6 DEF DocInv, Holds
    <3>2. /\ d \in Docs \ Seeds /\ row[d] = "unused" /\ file[d] # "none"
          /\ collection
      BY <3>1, <1>1 DEF AddHolds, One
    <3>3. file'[d] # "none" /\ One(op[c], d)'
      BY <1>1, <1>3, <1>5, <2>1, <3>2 DEF One
    <3> QED BY <1>1, <2>1, <3>2, <3>3 DEF Holds, AddHolds
  <2>3. Apart'
    BY <1>0, <1>6, <2>1, ApartKept DEF DocInv
  <2>4. alone' \in BOOLEAN BY <1>0, <2>1 DEF TypeOK
  <2> QED BY <1>1, <1>2, <1>3, <1>4, <2>1, <2>2, <2>3, <2>4, FileStep
<1>7. CASE Answer(c)
  <2>1. /\ op' \in [Clients -> Op]
        /\ op'[c] = NoOp
        /\ \A e \in Clients \ {c} : op'[e] = op[e]
        /\ alone' = alone
    BY <1>0, <1>7, AnswerDoes
  <2>2. Holds(op[c])'
    BY <2>1 DEF Holds, NoOp
  <2>3. Apart'
    BY <1>0, <2>1, ApartKept DEF DocInv
  <2>4. alone' \in BOOLEAN BY <1>0, <2>1 DEF TypeOK
  <2> QED BY <1>1, <1>2, <1>3, <1>4, <2>1, <2>2, <2>3, <2>4, FileStep
<1> QED BY <1>6, <1>7

-----------------------------------------------------------------------------
(* Rows of documents are committed. *)

\* A step that changes only the row of its own document: it stores a document that
\* has a file, or records a deletion.
LEMMA RowStep ==
    ASSUME DocInv, NEW c \in Clients, NEW d \in Docs, One(op[c], d),
           api = "serving",
           UNCHANGED <<startup, crashes, file, dir, collection>>,
           NEW text \in Versions \cup {"gone"},
           row' = [row EXCEPT ![d] = text],
           row[d] = "gone" => text = "gone",
           text \in Versions => collection /\ file[d] # "none",
           \A e \in Clients \ {c} : op[e].kind = "add" => d \notin op[e].doc,
           alone' \in BOOLEAN,
           op' \in [Clients -> Op], \A e \in Clients \ {c} : op'[e] = op[e],
           Apart', Holds(op[c])'
    PROVE  DocInv'
<1>1. TypeOK /\ RowHasFile /\ DeletedCollectionIsEmpty BY DEF DocInv
<1>2. file \in Files /\ row \in Rows BY <1>1 DEF TypeOK, Files, Rows
<1>3. /\ row' \in Rows
      /\ \A x \in Docs : row'[x] = IF x = d THEN text ELSE row[x]
  BY <1>2 DEF Rows
<1>4. RowHasFile'
  BY <1>1, <1>3 DEF RowHasFile, Stored
<1>5. DeletedCollectionIsEmpty'
  BY <1>1, <1>3 DEF DeletedCollectionIsEmpty, Stored
<1>6. /\ dir' \in BOOLEAN /\ collection' \in BOOLEAN
      /\ ~dir' => \A x \in Docs : file'[x] = "none"
  BY <1>1 DEF TypeOK
<1>7. text # "unused" BY DocumentStoreAssumption
<1>8. \A e \in Clients : \A x \in op[e].doc : x \in Docs
  BY <1>1, TypedOps DEF Op
<1>9. \A e \in Clients \ {c} : op[e].kind = "add" =>
          \A x \in op[e].doc :
              /\ row'[x] = row[x]
              /\ op[e].pc \in {"writing", "commit"} /\ file[x] # "none"
                    => file'[x] # "none"
  BY <1>3, <1>8
<1> QED BY <1>2, <1>3, <1>4, <1>5, <1>6, <1>7, <1>9, Step

\* No upload has a document that has a row.
LEMMA UploadsAreUnused ==
    ASSUME DocInv, NEW d \in Docs, row[d] # "unused", NEW e \in Clients,
           op[e].kind = "add"
    PROVE  d \notin op[e].doc
BY DEF DocInv, Holds, AddHolds, One

LEMMA AddCommitKeeps ==
    ASSUME DocInv, NEW c \in Clients, AddCommit(c)
    PROVE  DocInv'
<1>0. TypeOK /\ op[c].kind = "add" /\ op[c].pc = "commit" /\ Answer(c)
  BY DEF DocInv, AddCommit, At
<1>. PICK d \in Docs : d = DocOf(c) BY <1>0, Writes
<1>1. One(op[c], d) /\ op[c].content \in Versions BY <1>0, Writes
<1>2. api = "serving" BY <1>0, ServedBy
<1>. PICK text \in Versions : text = op[c].content BY <1>1
<1>3. row' = [row EXCEPT ![d] = text] BY DEF AddCommit
<1>4. AddHolds(op[c]) BY <1>0 DEF DocInv, Holds
<1>5. collection /\ row[d] = "unused" /\ file[d] # "none"
  BY <1>0, <1>1, <1>4 DEF AddHolds, One
<1>6. \A e \in Clients \ {c} : op[e].kind = "add" => d \notin op[e].doc
  BY <1>0, <1>1 DEF DocInv, Apart, One
<1>7. /\ op' \in [Clients -> Op]
      /\ op'[c] = NoOp
      /\ \A e \in Clients \ {c} : op'[e] = op[e]
      /\ alone' = alone
  BY <1>0, AnswerDoes
<1>8. Holds(op[c])'
  BY <1>7 DEF Holds, NoOp
<1>9. Apart'
  BY <1>0, <1>7, ApartKept DEF DocInv
<1>10. alone' \in BOOLEAN BY <1>0, <1>7 DEF TypeOK
<1>11. UNCHANGED <<collection, file, dir, crashes, startup>> BY DEF AddCommit
<1> QED BY <1>1, <1>2, <1>3, <1>5, <1>6, <1>7, <1>8, <1>9, <1>10, <1>11, RowStep

LEMMA UpdateCommitKeeps ==
    ASSUME DocInv, NEW c \in Clients, UpdateCommit(c)
    PROVE  DocInv'
<1>0. TypeOK /\ op[c].kind = "update" BY DEF DocInv, UpdateCommit, At
<1>. PICK d \in Docs : d = DocOf(c) BY <1>0, Writes
<1>1. One(op[c], d) /\ op[c].content \in Versions BY <1>0, Writes
<1>2. api = "serving" BY <1>0, ServedBy
<1>3. CASE Stored(d) /\ row' = [row EXCEPT ![d] = op[c].content] /\ Goto(c, "write")
  <2>. PICK text \in Versions : text = op[c].content BY <1>1
  <2>1. /\ op' \in [Clients -> Op]
        /\ op'[c].kind = "update" /\ op'[c].doc = op[c].doc
        /\ op'[c].content = text /\ op'[c].pc = "write"
        /\ \A e \in Clients \ {c} : op'[e] = op[e]
        /\ alone' = alone
    BY <1>0, <1>3, GotoDoes DEF Pcs
  <2>2. row[d] # "unused" /\ row[d] # "gone" BY <1>3, StoredIsUsed
  <2>3. collection /\ file[d] # "none"
    BY <1>0, <1>3 DEF DocInv, RowHasFile, DeletedCollectionIsEmpty, TypeOK
  <2>4. text # "unused" BY DocumentStoreAssumption
  <2>5. row'[d] = text BY <1>0, <1>3 DEF TypeOK
  <2>6. One(op[c], d)' BY <1>1, <2>1 DEF One
  <2>7. Holds(op[c])'
    BY <2>1, <2>4, <2>5, <2>6 DEF Holds, UpdateHolds
  <2>8. Apart'
    BY <1>0, <2>1, ApartKept DEF DocInv
  <2>9. alone' \in BOOLEAN BY <1>0, <2>1 DEF TypeOK
  <2>10. UNCHANGED <<collection, file, dir, crashes, startup>> BY DEF UpdateCommit
  <2>11. \A e \in Clients \ {c} : op[e].kind = "add" => d \notin op[e].doc
    BY <2>2, UploadsAreUnused
  <2> QED BY <1>1, <1>2, <1>3, <2>1, <2>2, <2>3, <2>7, <2>8, <2>9, <2>10, <2>11, RowStep
<1>4. CASE Answer(c) /\ UNCHANGED row
  <2>1. /\ op' \in [Clients -> Op]
        /\ op'[c] = NoOp
        /\ \A e \in Clients \ {c} : op'[e] = op[e]
        /\ alone' = alone
    BY <1>0, <1>4, AnswerDoes
  <2>2. Holds(op[c])'
    BY <2>1 DEF Holds, NoOp
  <2>3. Apart'
    BY <1>0, <2>1, ApartKept DEF DocInv
  <2> QED BY <1>2, <1>4, <2>1, <2>2, <2>3, QuietStep DEF UpdateCommit, DocInv, TypeOK
<1> QED BY <1>3, <1>4 DEF UpdateCommit

LEMMA DeleteCommitKeeps ==
    ASSUME DocInv, NEW c \in Clients, DeleteCommit(c)
    PROVE  DocInv'
<1>0. TypeOK /\ op[c].kind = "delete" BY DEF DocInv, DeleteCommit, At
<1>1. DeleteHolds(op[c]) BY <1>0 DEF DocInv, Holds
<1>. PICK d \in Docs : One(op[c], d) /\ row[d] # "unused" BY <1>1 DEF DeleteHolds
<1>2. d = DocOf(c) BY DocOfOne
<1>3. api = "serving" BY <1>0, ServedBy
<1>4. CASE row' = [row EXCEPT ![d] = "gone"] /\ Goto(c, "unlink")
  <2>1. /\ op' \in [Clients -> Op]
        /\ op'[c].kind = "delete" /\ op'[c].doc = op[c].doc
        /\ op'[c].pc = "unlink"
        /\ \A e \in Clients \ {c} : op'[e] = op[e]
        /\ alone' = alone
    BY <1>0, <1>4, GotoDoes DEF Pcs
  <2>2. row'[d] = "gone" BY <1>0, <1>4 DEF TypeOK
  <2>3. One(op[c], d)' BY <2>1 DEF One
  <2>4. Holds(op[c])'
    BY <2>1, <2>2, <2>3 DEF Holds, DeleteHolds
  <2>5. Apart'
    BY <1>0, <2>1, ApartKept DEF DocInv
  <2>6. alone' \in BOOLEAN BY <1>0, <2>1 DEF TypeOK
  <2>7. UNCHANGED <<collection, file, dir, crashes, startup>> BY DEF DeleteCommit
  <2>8. \A e \in Clients \ {c} : op[e].kind = "add" => d \notin op[e].doc
    BY UploadsAreUnused
  <2>9. "gone" \notin Versions BY DocumentStoreAssumption
  <2> QED BY <1>3, <1>4, <2>1, <2>4, <2>5, <2>6, <2>7, <2>8, <2>9, RowStep
<1>5. CASE Answer(c) /\ UNCHANGED row
  <2>1. /\ op' \in [Clients -> Op]
        /\ op'[c] = NoOp
        /\ \A e \in Clients \ {c} : op'[e] = op[e]
        /\ alone' = alone
    BY <1>0, <1>5, AnswerDoes
  <2>2. Holds(op[c])'
    BY <2>1 DEF Holds, NoOp
  <2>3. Apart'
    BY <1>0, <2>1, ApartKept DEF DocInv
  <2> QED BY <1>3, <1>5, <2>1, <2>2, <2>3, QuietStep DEF DeleteCommit, DocInv, TypeOK
<1> QED BY <1>2, <1>4, <1>5 DEF DeleteCommit

-----------------------------------------------------------------------------
(* Files and the collection go. *)

LEMMA DeleteUnlinkKeeps ==
    ASSUME DocInv, NEW c \in Clients, DeleteUnlink(c)
    PROVE  DocInv'
<1>0. TypeOK /\ op[c].kind = "delete" /\ op[c].pc = "unlink" /\ Answer(c)
  BY DEF DocInv, DeleteUnlink, At
<1>1. DeleteHolds(op[c]) BY <1>0 DEF DocInv, Holds
<1>. PICK d \in Docs : One(op[c], d) /\ row[d] = "gone" BY <1>0, <1>1 DEF DeleteHolds
<1>2. d = DocOf(c) BY DocOfOne
<1>3. api = "serving" BY <1>0, ServedBy
<1>4. /\ file' = [file EXCEPT ![d] = "none"]
      /\ UNCHANGED <<collection, row, dir, crashes, startup>>
  BY <1>2 DEF DeleteUnlink
<1>5. /\ file' \in Files
      /\ \A x \in Docs : file'[x] = IF x = d THEN "none" ELSE file[x]
  BY <1>0, <1>4 DEF TypeOK, Files
<1>6. ~Stored(d) BY DocumentStoreAssumption DEF Stored
<1>7. RowHasFile' /\ DeletedCollectionIsEmpty'
  BY <1>4, <1>5, <1>6 DEF DocInv, RowHasFile, DeletedCollectionIsEmpty, Stored
<1>8. \A e \in Clients \ {c} : op[e].kind = "add" => d \notin op[e].doc
  BY UploadsAreUnused
<1>9. \A e \in Clients \ {c} : op[e].kind = "add" =>
          \A x \in op[e].doc :
              /\ row'[x] = row[x]
              /\ op[e].pc \in {"writing", "commit"} /\ file[x] # "none"
                    => file'[x] # "none"
  <2>1. \A e \in Clients : \A x \in op[e].doc : x \in Docs
    BY <1>0, TypedOps DEF Op
  <2> QED BY <1>4, <1>5, <1>8, <2>1
<1>10. /\ op' \in [Clients -> Op]
       /\ op'[c] = NoOp
       /\ \A e \in Clients \ {c} : op'[e] = op[e]
       /\ alone' = alone
  BY <1>0, AnswerDoes
<1>11. Holds(op[c])'
  BY <1>10 DEF Holds, NoOp
<1>12. Apart'
  BY <1>0, <1>10, ApartKept DEF DocInv
<1>13. /\ alone' \in BOOLEAN /\ dir' \in BOOLEAN /\ row' \in Rows /\ collection' \in BOOLEAN
       /\ ~dir' => \A x \in Docs : file'[x] = "none"
  BY <1>0, <1>4, <1>5, <1>10 DEF TypeOK, Rows
<1> QED BY <1>3, <1>4, <1>5, <1>7, <1>9, <1>10, <1>11, <1>12, <1>13, Step

LEMMA DropCommitKeeps ==
    ASSUME DocInv, NEW c \in Clients, DropCommit(c)
    PROVE  DocInv'
<1>0. TypeOK /\ op[c].kind = "drop" /\ ~Locked BY DEF DocInv, DropCommit, At
<1>1. api = "serving" BY <1>0, ServedBy
<1>2. CASE /\ \A d \in Docs : Stored(d) => d \in op[c].doc
           /\ row' = [d \in Docs |-> IF d \in op[c].doc THEN "gone" ELSE row[d]]
           /\ collection' = FALSE
           /\ Goto(c, "rmtree")
  <2>1. /\ op' \in [Clients -> Op]
        /\ op'[c].kind = "drop" /\ op'[c].doc = op[c].doc
        /\ op'[c].pc = "rmtree"
        /\ \A e \in Clients \ {c} : op'[e] = op[e]
        /\ alone' = alone
    BY <1>0, <1>2, GotoDoes DEF Pcs
  <2>2. DropHolds(op[c]) BY <1>0 DEF DocInv, Holds
  <2>3. \A x \in op[c].doc : x \in Docs /\ row[x] # "unused"
    BY <1>0, <2>2, TypedOps DEF DropHolds, Op
  <2>4. UNCHANGED <<file, dir, crashes, startup>> BY DEF DropCommit
  <2>5. \A x \in Docs : ~Stored(x)'
    BY <1>2, DocumentStoreAssumption DEF Stored
  <2>6. RowHasFile' /\ DeletedCollectionIsEmpty'
    BY <2>5 DEF RowHasFile, DeletedCollectionIsEmpty
  <2>7. Holds(op[c])'
    BY <1>2, <2>1, <2>3 DEF Holds, DropHolds
  <2>8. Apart'
    BY <1>0, <2>1, ApartKept DEF DocInv
  <2>9. \A e \in Clients \ {c} : op[e].kind = "add" =>
            \A x \in op[e].doc :
                /\ row'[x] = row[x]
                /\ op[e].pc \in {"writing", "commit"} /\ file[x] # "none"
                      => file'[x] # "none"
    <3>1. \A e \in Clients : \A x \in op[e].doc : x \in Docs
      BY <1>0, TypedOps DEF Op
    <3>2. \A e \in Clients \ {c} : op[e].kind = "add" =>
              \A x \in op[e].doc : x \notin op[c].doc
      BY <2>3, <3>1, UploadsAreUnused
    <3> QED BY <1>2, <2>4, <3>1, <3>2
  <2>10. /\ alone' \in BOOLEAN /\ dir' \in BOOLEAN /\ file' \in Files
         /\ ~dir' => \A x \in Docs : file'[x] = "none"
    BY <1>0, <2>1, <2>4 DEF TypeOK, Files
  <2>11. /\ row' \in Rows
         /\ \A x \in Docs : row[x] # "unused" => row'[x] # "unused"
         /\ \A x \in Docs : row[x] = "gone" => row'[x] = "gone"
    BY <1>0, <1>2 DEF TypeOK, Rows
  <2> QED BY <1>0, <1>1, <1>2, <2>1, <2>4, <2>6, <2>7, <2>8, <2>9, <2>10, <2>11, Step
<1>3. CASE Answer(c) /\ UNCHANGED <<row, collection>>
  <2>1. /\ op' \in [Clients -> Op]
        /\ op'[c] = NoOp
        /\ \A e \in Clients \ {c} : op'[e] = op[e]
        /\ alone' = alone
    BY <1>0, <1>3, AnswerDoes
  <2>2. Holds(op[c])'
    BY <2>1 DEF Holds, NoOp
  <2>3. Apart'
    BY <1>0, <2>1, ApartKept DEF DocInv
  <2> QED BY <1>1, <1>3, <2>1, <2>2, <2>3, QuietStep DEF DropCommit, DocInv, TypeOK
<1> QED BY <1>2, <1>3 DEF DropCommit

\* By then the collection is deleted, and no upload is past its flush.
LEMMA DropRemoveTreeKeeps ==
    ASSUME DocInv, NEW c \in Clients, DropRemoveTree(c)
    PROVE  DocInv'
<1>0. TypeOK /\ op[c].kind = "drop" /\ op[c].pc = "rmtree" /\ Answer(c)
  BY DEF DocInv, DropRemoveTree, At
<1>1. api = "serving" BY <1>0, ServedBy
<1>2. ~collection BY <1>0 DEF DocInv, Holds, DropHolds
<1>3. \A d \in Docs : ~Stored(d) BY <1>2 DEF DocInv, DeletedCollectionIsEmpty
<1>4. UNCHANGED <<collection, row, crashes, startup>> BY DEF DropRemoveTree
<1>5. RowHasFile' /\ DeletedCollectionIsEmpty'
  BY <1>3, <1>4 DEF RowHasFile, DeletedCollectionIsEmpty, Stored
<1>6. \A e \in Clients : op[e].kind = "add" => op[e].pc \notin {"writing", "commit"}
  BY <1>2 DEF DocInv, Holds, AddHolds
<1>7. /\ op' \in [Clients -> Op]
      /\ op'[c] = NoOp
      /\ \A e \in Clients \ {c} : op'[e] = op[e]
      /\ alone' = alone
  BY <1>0, AnswerDoes
<1>8. Holds(op[c])'
  BY <1>7 DEF Holds, NoOp
<1>9. Apart'
  BY <1>0, <1>7, ApartKept DEF DocInv
<1>10. /\ dir' \in BOOLEAN /\ file' \in Files
       /\ \A d \in Docs : file'[d] = "none"
  BY DEF DropRemoveTree, Files
<1>11. alone' \in BOOLEAN /\ row' \in Rows /\ collection' \in BOOLEAN
  BY <1>0, <1>4, <1>7 DEF TypeOK, Rows
<1> QED BY <1>1, <1>4, <1>5, <1>6, <1>7, <1>8, <1>9, <1>10, <1>11, Step

-----------------------------------------------------------------------------
(* The process starts and is killed: nobody is being served. *)

LEMMA NobodyServed ==
    ASSUME op' = [c \in Clients |-> NoOp]
    PROVE  /\ \A c \in Clients : Holds(op[c])'
           /\ Apart'
           /\ op' \in [Clients -> Op]
BY NoOpTyped DEF Holds, NoOp, Apart

LEMMA StartKeeps ==
    ASSUME DocInv, Start
    PROVE  DocInv'
<1>1. op = [c \in Clients |-> NoOp] /\ op' = op BY DEF DocInv, SeedInv, Start
<1>2. \A c \in Clients : Holds(op[c])' BY <1>1, NobodyServed
<1>3. Apart' BY <1>1, NobodyServed
<1>4. TypeOK'
  BY DEF DocInv, TypeOK, Start, SeedInv
<1>5. SeedInv'
  BY <1>1 DEF DocInv, SeedInv, Start, SeedMissing
<1>6. RowHasFile' /\ DeletedCollectionIsEmpty'
  BY DEF DocInv, Start, RowHasFile, DeletedCollectionIsEmpty, Stored
<1> QED BY <1>2, <1>3, <1>4, <1>5, <1>6 DEF DocInv

LEMMA SeedOpenFileKeeps ==
    ASSUME DocInv, NEW d \in Seeds, SeedOpenFile(d)
    PROVE  DocInv'
<1>0. TypeOK /\ d \in Docs BY DocumentStoreAssumption DEF DocInv
<1>1. op = [c \in Clients |-> NoOp] /\ op' = op BY DEF DocInv, SeedInv, SeedOpenFile
<1>2. (\A c \in Clients : Holds(op[c])') /\ Apart' BY <1>1, NobodyServed
<1>3. file \in Files BY <1>0 DEF TypeOK, Files
<1>4. /\ file' \in Files
      /\ \A x \in Docs : file[x] # "none" => file'[x] # "none"
  BY <1>0, <1>3 DEF SeedOpenFile, Files
<1>5. TypeOK'
  BY <1>0, <1>4 DEF TypeOK, SeedOpenFile, startup, Files
<1>6. SeedInv'
  BY <1>0, <1>1, <1>4, DocumentStoreAssumption DEF DocInv, SeedInv, SeedOpenFile, startup, TypeOK
<1>7. RowHasFile' /\ DeletedCollectionIsEmpty'
  BY <1>4 DEF DocInv, SeedOpenFile, RowHasFile, DeletedCollectionIsEmpty, Stored
<1> QED BY <1>2, <1>5, <1>6, <1>7 DEF DocInv

LEMMA SeedWriteFileKeeps ==
    ASSUME DocInv, NEW d \in Seeds, SeedWriteFile(d)
    PROVE  DocInv'
<1>0. TypeOK /\ d \in Docs /\ SeedText \in Versions /\ SeedText # "none"
  BY DocumentStoreAssumption DEF DocInv
<1>1. op = [c \in Clients |-> NoOp] /\ op' = op BY DEF DocInv, SeedInv, SeedWriteFile
<1>2. (\A c \in Clients : Holds(op[c])') /\ Apart' BY <1>1, NobodyServed
<1>3. file \in Files BY <1>0 DEF TypeOK, Files
<1>4. /\ file' \in Files /\ file'[d] # "none"
      /\ \A x \in Docs : file[x] # "none" => file'[x] # "none"
  BY <1>0, <1>3 DEF SeedWriteFile, Files
<1>5. dir BY <1>0 DEF TypeOK, SeedWriteFile
<1>6. TypeOK'
  BY <1>0, <1>4, <1>5 DEF TypeOK, SeedWriteFile, Files
<1>7. SeedInv'
  BY <1>0, <1>1, <1>4, DocumentStoreAssumption DEF DocInv, SeedInv, SeedWriteFile, TypeOK
<1>8. RowHasFile' /\ DeletedCollectionIsEmpty'
  BY <1>4 DEF DocInv, SeedWriteFile, RowHasFile, DeletedCollectionIsEmpty, Stored
<1> QED BY <1>2, <1>6, <1>7, <1>8 DEF DocInv

LEMMA SeedCommitKeeps ==
    ASSUME DocInv, SeedCommit
    PROVE  DocInv'
<1>0. TypeOK /\ SeedText \in Versions /\ seeded \subseteq Docs
  BY DocumentStoreAssumption DEF DocInv, TypeOK
<1>1. op = [c \in Clients |-> NoOp] /\ op' = op BY DEF DocInv, SeedInv, SeedCommit
<1>2. (\A c \in Clients : Holds(op[c])') /\ Apart' BY <1>1, NobodyServed
<1>3. TypeOK'
  BY <1>0 DEF TypeOK, SeedCommit
<1>4. SeedInv'
  BY DEF DocInv, SeedInv, SeedCommit
<1>5. RowHasFile'
  BY <1>0 DEF DocInv, SeedInv, SeedCommit, RowHasFile, Stored
<1>6. DeletedCollectionIsEmpty' BY DEF SeedCommit, DeletedCollectionIsEmpty
<1> QED BY <1>2, <1>3, <1>4, <1>5, <1>6 DEF DocInv

LEMMA CrashKeeps ==
    ASSUME DocInv, Crash
    PROVE  DocInv'
<1>1. op' = [c \in Clients |-> NoOp] BY DEF Crash
<1>2. (\A c \in Clients : Holds(op[c])') /\ Apart' BY <1>1, NobodyServed
<1>3. op' \in [Clients -> Op] BY <1>1, NobodyServed
<1>4. TypeOK'
  BY <1>3, DocumentStoreAssumption DEF DocInv, TypeOK, Crash, Op, Kinds, Pcs
<1>5. SeedInv' /\ RowHasFile' /\ DeletedCollectionIsEmpty'
  BY DEF DocInv, SeedInv, Crash, RowHasFile, DeletedCollectionIsEmpty, Stored
<1> QED BY <1>2, <1>4, <1>5 DEF DocInv

-----------------------------------------------------------------------------
(* The invariant *)

LEMMA InitKeeps == Init => DocInv
<1>. SUFFICES ASSUME Init PROVE DocInv OBVIOUS
<1>1. op = [c \in Clients |-> NoOp] BY DEF Init
<1>2. \A c \in Clients : Holds(op[c]) BY <1>1 DEF Holds, NoOp
<1>3. Apart BY <1>1 DEF Apart, NoOp
<1>4. op \in [Clients -> Op] BY <1>1, NoOpTyped
<1>5. TypeOK
  <2>1. collection \in BOOLEAN BY ZenonT(20) DEF Init
  <2>2. /\ row \in [Docs -> Versions \cup {"unused", "gone"}]
        /\ file \in [Docs -> Versions \cup {"none", "partial"}]
        /\ \A d \in Docs : file[d] = "none"
    BY DEF Init
  <2>3. crashes \in 0..MaxCrashes BY DocumentStoreAssumption DEF Init
  <2>4. dir \in BOOLEAN /\ alone \in BOOLEAN BY DEF Init
  <2> QED BY <1>4, <2>1, <2>2, <2>3, <2>4 DEF Init, TypeOK, Op, Kinds, Pcs
<1>6. \A d \in Docs : ~Stored(d)
  BY DocumentStoreAssumption DEF Init, Stored
<1>7. SeedInv /\ RowHasFile /\ DeletedCollectionIsEmpty
  BY <1>6 DEF Init, SeedInv, RowHasFile, DeletedCollectionIsEmpty
<1> QED BY <1>2, <1>3, <1>5, <1>7 DEF DocInv

\* A step of a request, without its first.
ClientStep(c) ==
    \/ AddMakeDir(c) \/ AddFlush(c)
    \/ AddOpenFile(c) \/ AddWriteFile(c) \/ AddCommit(c)
    \/ UpdateMakeDir(c) \/ UpdateCommit(c) \/ UpdateOpenFile(c) \/ UpdateWriteFile(c)
    \/ DeleteCommit(c) \/ DeleteUnlink(c)
    \/ DropCommit(c) \/ DropRemoveTree(c)

\* The first step of a request.
ClientStart(c) ==
    \/ \E d \in Docs, v \in Versions : AddLoad(c, d, v) \/ UpdateLoad(c, d, v)
    \/ \E d \in Docs : DeleteLoad(c, d)
    \/ DropLoad(c)

ProcessStep ==
    \/ Start \/ SeedCommit \/ \E d \in Seeds : SeedOpenFile(d) \/ SeedWriteFile(d)
    \/ Crash

LEMMA NextSplits == 
    Next => ProcessStep \/ \E c \in Clients : ClientStart(c) \/ ClientStep(c)
BY DEF Next, ProcessStep, ClientStart, ClientStep

LEMMA ClientStartKeeps ==
    ASSUME DocInv, NEW c \in Clients, ClientStart(c)
    PROVE  DocInv'
<1>1. ASSUME NEW d \in Docs, NEW v \in Versions, AddLoad(c, d, v)
      PROVE  DocInv'
  BY <1>1, AddLoadKeeps
<1>2. ASSUME NEW d \in Docs, NEW v \in Versions, UpdateLoad(c, d, v)
      PROVE  DocInv'
  BY <1>2, UpdateLoadKeeps
<1>3. ASSUME NEW d \in Docs, DeleteLoad(c, d)
      PROVE  DocInv'
  BY <1>3, DeleteLoadKeeps
<1>4. CASE DropLoad(c) BY <1>4, DropLoadKeeps
<1> QED BY <1>1, <1>2, <1>3, <1>4 DEF ClientStart

LEMMA ClientStepKeeps ==
    ASSUME DocInv, NEW c \in Clients, ClientStep(c)
    PROVE  DocInv'
<1>1. CASE AddMakeDir(c) BY <1>1, AddMakeDirKeeps
<1>2. CASE AddFlush(c) BY <1>2, AddFlushKeeps
<1>3. CASE AddOpenFile(c)
  <2>1. op[c].kind = "add" /\ op[c].pc = "write" /\ OpenFile(c, "writing")
    BY <1>3 DEF AddOpenFile, At
  <2> QED BY <2>1, OpenFileKeeps
<1>4. CASE AddWriteFile(c)
  <2>1. /\ op[c].kind = "add" /\ op[c].pc = "writing" /\ WriteFile(c) /\ Goto(c, "commit")
        /\ UNCHANGED <<collection, row, dir, crashes, startup>>
    BY <1>4 DEF AddWriteFile, At
  <2> QED BY <2>1, WriteFileKeeps
<1>5. CASE AddCommit(c) BY <1>5, AddCommitKeeps
<1>6. CASE UpdateMakeDir(c) BY <1>6, UpdateMakeDirKeeps
<1>7. CASE UpdateCommit(c) BY <1>7, UpdateCommitKeeps
<1>8. CASE UpdateOpenFile(c)
  <2>1. op[c].kind = "update" /\ op[c].pc = "write" /\ OpenFile(c, "writing")
    BY <1>8 DEF UpdateOpenFile, At
  <2> QED BY <2>1, OpenFileKeeps
<1>9. CASE UpdateWriteFile(c)
  <2>1. /\ op[c].kind = "update" /\ op[c].pc = "writing" /\ WriteFile(c) /\ Answer(c)
        /\ UNCHANGED <<collection, row, dir, crashes, startup>>
    BY <1>9 DEF UpdateWriteFile, At
  <2> QED BY <2>1, WriteFileKeeps
<1>10. CASE DeleteCommit(c) BY <1>10, DeleteCommitKeeps
<1>11. CASE DeleteUnlink(c) BY <1>11, DeleteUnlinkKeeps
<1>12. CASE DropCommit(c) BY <1>12, DropCommitKeeps
<1>13. CASE DropRemoveTree(c) BY <1>13, DropRemoveTreeKeeps
<1> QED BY <1>1, <1>2, <1>3, <1>4, <1>5, <1>6, <1>7, <1>8, <1>9, <1>10, <1>11, <1>12,
           <1>13 DEF ClientStep

LEMMA ProcessStepKeeps ==
    ASSUME DocInv, ProcessStep
    PROVE  DocInv'
<1>1. CASE Start BY <1>1, StartKeeps
<1>2. CASE SeedCommit BY <1>2, SeedCommitKeeps
<1>3. ASSUME NEW d \in Seeds, SeedOpenFile(d) PROVE DocInv' BY <1>3, SeedOpenFileKeeps
<1>4. ASSUME NEW d \in Seeds, SeedWriteFile(d) PROVE DocInv' BY <1>4, SeedWriteFileKeeps
<1>5. CASE Crash BY <1>5, CrashKeeps
<1> QED BY <1>1, <1>2, <1>3, <1>4, <1>5 DEF ProcessStep

LEMMA StutterKeeps == DocInv /\ UNCHANGED vars => DocInv'
<1>. SUFFICES ASSUME DocInv, UNCHANGED vars PROVE DocInv' OBVIOUS
<1>1. /\ UNCHANGED <<collection, row, file, dir, op, crashes, alone>>
      /\ UNCHANGED <<api, toSeed, seeded>>
  BY DEF vars, startup
<1>2. TypeOK' BY <1>1 DEF DocInv, TypeOK
<1>3. \A c \in Clients : Holds(op[c])'
  <2>. SUFFICES ASSUME NEW c \in Clients PROVE Holds(op[c])' OBVIOUS
  <2>1. Holds(op[c]) BY DEF DocInv
  <2> QED BY <1>1, <2>1 DEF Holds, AddHolds, UpdateHolds, DeleteHolds, DropHolds, One
<1>4. Apart' BY <1>1 DEF DocInv, Apart
<1>5. SeedInv' /\ RowHasFile' /\ DeletedCollectionIsEmpty'
  BY <1>1 DEF DocInv, SeedInv, RowHasFile, DeletedCollectionIsEmpty, Stored
<1> QED BY <1>2, <1>3, <1>4, <1>5 DEF DocInv

LEMMA DocInvAlways == Spec => []DocInv
<1>1. DocInv /\ [Next]_vars => DocInv'
  BY NextSplits, ClientStartKeeps, ClientStepKeeps, ProcessStepKeeps, StutterKeeps
<1> QED BY <1>1, InitKeeps, PTL DEF Spec

\* Rows, files, requests and the start-up keep to their values, and there is no
\* file without its directory (collections.py).
THEOREM DocTypeCorrect == Spec => []TypeOK
<1>1. DocInv => TypeOK BY DEF DocInv
<1> QED BY <1>1, DocInvAlways, PTL

\* Whatever requests race and wherever the process is killed, a committed
\* document has a file (collections.py).
THEOREM RowAlwaysHasFile == Spec => []RowHasFile
<1>1. DocInv => RowHasFile BY DEF DocInv
<1> QED BY <1>1, DocInvAlways, PTL

\* A deleted collection has no documents, although uploads load the collection
\* and commit later (collections.py delete_collection, add_collection_document).
THEOREM DeletedCollectionAlwaysEmpty == Spec => []DeletedCollectionIsEmpty
<1>1. DocInv => DeletedCollectionIsEmpty BY DEF DocInv
<1> QED BY <1>1, DocInvAlways, PTL

-----------------------------------------------------------------------------
(* What no step does *)

\* Only three commits of requests write rows; none of them finds its row gone.
LEMMA ClientKeepsDeleted ==
    ASSUME DocInv, NEW c \in Clients, ClientStart(c) \/ ClientStep(c),
           NEW d \in Docs, row[d] = "gone"
    PROVE  row'[d] = "gone"
<1>0. TypeOK BY DEF DocInv
<1>1. CASE AddCommit(c)
  <2>1. op[c].kind = "add" BY <1>1 DEF AddCommit, At
  <2>2. One(op[c], DocOf(c)) BY <2>1, Writes
  <2>3. d # DocOf(c) BY <2>1, <2>2, UploadsAreUnused DEF One
  <2> QED BY <1>0, <1>1, <2>3 DEF AddCommit, TypeOK
<1>2. CASE UpdateCommit(c)
  <2>1. op[c].kind = "update" BY <1>2 DEF UpdateCommit, At
  <2>2. DocOf(c) \in Docs BY <2>1, Writes
  <2>3. CASE Stored(DocOf(c)) /\ row' = [row EXCEPT ![DocOf(c)] = op[c].content]
    <3>1. d # DocOf(c) BY <2>2, <2>3, StoredIsUsed
    <3> QED BY <1>0, <2>3, <3>1 DEF TypeOK
  <2>4. CASE UNCHANGED row BY <2>4
  <2> QED BY <1>2, <2>3, <2>4 DEF UpdateCommit
<1>3. CASE DeleteCommit(c)
  BY <1>0, <1>3 DEF DeleteCommit, TypeOK
<1>4. CASE DropCommit(c)
  BY <1>4 DEF DropCommit
<1>5. CASE UNCHANGED row BY <1>5
<1>6. ClientStart(c) => UNCHANGED row
  BY DEF ClientStart, AddLoad, UpdateLoad, DeleteLoad, DropLoad
<1>7. ClientStep(c) =>
         AddCommit(c) \/ UpdateCommit(c) \/ DeleteCommit(c) \/ DropCommit(c) \/ UNCHANGED row
  BY DEF ClientStep, AddMakeDir, AddFlush, AddOpenFile, AddWriteFile, UpdateMakeDir,
         UpdateOpenFile, UpdateWriteFile, DeleteUnlink, DropRemoveTree, OpenFile
<1> QED BY <1>1, <1>2, <1>3, <1>4, <1>5, <1>6, <1>7

LEMMA ProcessKeepsDeleted ==
    ASSUME DocInv, ProcessStep, NEW d \in Docs, row[d] = "gone", row'[d] # "gone"
    PROVE  ~collection /\ collection'
<1>1. CASE SeedCommit BY <1>1 DEF SeedCommit, DocInv, SeedInv
<1>2. CASE UNCHANGED row BY <1>2
<1>3. ProcessStep => SeedCommit \/ UNCHANGED row
  BY DEF ProcessStep, Start, SeedOpenFile, SeedWriteFile, Crash
<1> QED BY <1>1, <1>2, <1>3

\* A deleted document never comes back by an upload or an update that was under
\* way (collections.py update_document_content, delete_document).
THEOREM DeletedAlwaysStaysDeleted == Spec => DeletedStaysDeleted
<1>. DEFINE Revived == 
         \A d \in Docs : row[d] = "gone" /\ row'[d] # "gone" => ~collection /\ collection'
<1>1. DocInv /\ [Next]_vars => [Revived]_vars
  <2>. SUFFICES ASSUME DocInv, Next, NEW d \in Docs, row[d] = "gone", row'[d] # "gone"
                PROVE  ~collection /\ collection'
    BY DEF vars
  <2> QED BY NextSplits, ClientKeepsDeleted, ProcessKeepsDeleted
<1> QED BY <1>1, DocInvAlways, PTL DEF Spec, DeletedStaysDeleted

\* Nobody is served before the start-up has passed a collection that is there.
LEMMA ClientIsServed ==
    ASSUME DocInv, NEW c \in Clients, ClientStart(c) \/ ClientStep(c)
    PROVE  api = "serving"
<1>1. ClientStart(c) => api = "serving"
  BY DEF ClientStart, AddLoad, UpdateLoad, DeleteLoad, DropLoad, Begin
<1>2. ClientStep(c) => op[c].kind # "none"
  BY DEF ClientStep, AddMakeDir, AddFlush, AddOpenFile, AddWriteFile, AddCommit,
         UpdateMakeDir, UpdateCommit, UpdateOpenFile, UpdateWriteFile,
         DeleteCommit, DeleteUnlink, DropCommit, DropRemoveTree, At
<1> QED BY <1>1, <1>2, ServedBy

\* A restart leaves the documents of a collection that is there as they are
\* (collections.py ensure_default_rag_collections).
THEOREM RestartAlwaysKeepsEdits == Spec => RestartKeepsEdits
<1>. DEFINE Kept == collection /\ api # "serving" => UNCHANGED <<collection, row, file>>
<1>1. DocInv /\ [Next]_vars => [Kept]_vars
  <2>. SUFFICES ASSUME DocInv, Next, collection, api # "serving"
                PROVE  UNCHANGED <<collection, row, file>>
    BY DEF vars
  <2>1. ProcessStep BY NextSplits, ClientIsServed
  <2>2. api = "off" BY DEF DocInv, SeedInv, TypeOK
  <2> QED BY <2>1, <2>2 DEF ProcessStep, Start, SeedOpenFile, SeedWriteFile, SeedCommit, Crash
<1> QED BY <1>1, DocInvAlways, PTL DEF Spec, RestartKeepsEdits

-----------------------------------------------------------------------------
(* Rows and files, when requests come one after the other *)

Match(d) == file[d] = IF Stored(d) THEN row[d] ELSE "none"

\* The documents whose row and file a request has set apart.
Touched(o) ==
    {d \in Docs :
        \/ o.kind = "drop" /\ o.pc = "rmtree"
        \/ /\ d \in o.doc
           /\ \/ o.kind = "add" /\ o.pc \in {"writing", "commit"}
              \/ o.kind = "update" /\ o.pc \in {"write", "writing"}
              \/ o.kind = "delete" /\ o.pc = "unlink"}

\* How far it has come with its document.
Progress(o) ==
    /\ o.kind = "update" /\ o.pc \in {"flush", "write"} => dir
    /\ \A d \in o.doc :
          /\ o.kind = "update" /\ o.pc \in {"write", "writing"} => row[d] = o.content
          /\ o.kind \in {"add", "update"} /\ o.pc = "writing" => file[d] = "partial"
          /\ o.kind = "add" /\ o.pc = "commit" => file[d] = o.content

SeedProgress ==
    api = "seeding" => \A d \in Docs :
        /\ d \in seeded => file[d] = SeedText
        /\ d \notin toSeed \cup seeded => file[d] = "none"

MatchInv ==
    alone =>
        /\ \A c, e \in Clients : c # e => op[c] = NoOp \/ op[e] = NoOp
        /\ \A c \in Clients : Progress(op[c])
        /\ SeedProgress
        /\ api # "seeding" =>
              \A d \in Docs : (\A c \in Clients : d \notin Touched(op[c])) => Match(d)

LEMMA NoOpTouches ==
    ASSUME NEW c \in Clients, op[c] = NoOp
    PROVE  Touched(op[c]) = {} /\ Progress(op[c])
BY DEF Touched, Progress, NoOp

\* The only request there is, if requests come one after the other.
LEMMA OnlyOne ==
    ASSUME DocInv, MatchInv, alone, NEW c \in Clients, api = "serving",
           op[c] # NoOp \/ \A e \in Clients : op[e] = NoOp
    PROVE  /\ \A e \in Clients \ {c} : op[e] = NoOp
           /\ Progress(op[c])
           /\ \A d \in Docs : d \notin Touched(op[c]) => Match(d)
<1>1. \A e \in Clients \ {c} : op[e] = NoOp BY DEF MatchInv
<1>2. \A e \in Clients \ {c} : Touched(op[e]) = {} BY <1>1, NoOpTouches
<1>3. \A d \in Docs : d \notin Touched(op[c]) => \A e \in Clients : d \notin Touched(op[e])
  BY <1>2
<1>4. \A d \in Docs : d \notin Touched(op[c]) => Match(d) BY <1>3 DEF MatchInv
<1> QED BY <1>1, <1>4 DEF MatchInv

LEMMA OnlyStep ==
    ASSUME NEW c \in Clients, api' = "serving",
           \A e \in Clients \ {c} : op'[e] = NoOp, Progress(op[c])',
           \A d \in Docs : d \notin Touched(op[c])' => Match(d)'
    PROVE  MatchInv'
<1>1. \A e \in Clients \ {c} : Progress(op[e])' /\ Touched(op[e])' = {}
  BY DEF Touched, Progress, NoOp
<1>2. \A d \in Docs : (\A e \in Clients : d \notin Touched(op[e])') => Match(d)' OBVIOUS
<1> QED BY <1>1, <1>2 DEF MatchInv, SeedProgress

\* A request that is answered, and a step that touches neither rows nor files.
LEMMA AnswerMatches ==
    ASSUME NEW c \in Clients, api' = "serving", op'[c] = NoOp,
           \A e \in Clients \ {c} : op'[e] = NoOp, \A d \in Docs : Match(d)'
    PROVE  MatchInv'
<1>1. Progress(op[c])' BY DEF Progress, NoOp
<1> QED BY <1>1, OnlyStep

LEMMA UntouchedMatches ==
    ASSUME UNCHANGED <<row, file>>, NEW d \in Docs, Match(d)
    PROVE  Match(d)'
BY DEF Match, Stored

LEMMA BeginMatches ==
    ASSUME DocInv, MatchInv, alone', NEW c \in Clients, ClientStart(c)
    PROVE  MatchInv'
<1>0. TypeOK /\ api = "serving" BY ClientIsServed DEF DocInv
<1>1. PICK kind \in Kinds, S \in SUBSET Docs, v \in Versions \cup {"none"} :
          Begin(c, kind, S, v) /\ UNCHANGED <<collection, row, file, dir, crashes, startup>>
  <2>1. ASSUME NEW d \in Docs, NEW v \in Versions, AddLoad(c, d, v) \/ UpdateLoad(c, d, v)
        PROVE  \E kind \in Kinds :
                  /\ Begin(c, kind, {d}, v)
                  /\ UNCHANGED <<collection, row, file, dir, crashes, startup>>
    BY <2>1 DEF AddLoad, UpdateLoad, Kinds
  <2>2. ASSUME NEW d \in Docs, DeleteLoad(c, d)
        PROVE  /\ Begin(c, "delete", {d}, "none")
               /\ UNCHANGED <<collection, row, file, dir, crashes, startup>>
    BY <2>2 DEF DeleteLoad
  <2>3. ASSUME DropLoad(c)
        PROVE  /\ Begin(c, "drop", {d \in Docs : Stored(d)}, "none")
               /\ UNCHANGED <<collection, row, file, dir, crashes, startup>>
    BY <2>3 DEF DropLoad
  <2>4. {d \in Docs : Stored(d)} \in SUBSET Docs OBVIOUS
  <2> QED BY <2>1, <2>2, <2>3, <2>4 DEF ClientStart, Kinds
<1>2. /\ op'[c] = [kind |-> kind, pc |-> "loaded", doc |-> S, content |-> v]
      /\ \A e \in Clients \ {c} : op'[e] = op[e]
  BY <1>0, <1>1, BeginDoes
<1>3. alone /\ \A e \in Clients : op[e] = NoOp BY <1>1 DEF Begin
<1>4. \A e \in Clients \ {c} : op'[e] = NoOp BY <1>2, <1>3
<1>5. \A d \in Docs : Match(d)
  <2>1. Touched(op[c]) = {} BY <1>3, NoOpTouches
  <2> QED BY <1>0, <1>3, <2>1, OnlyOne
<1>6. \A d \in Docs : Match(d)' BY <1>1, <1>5, UntouchedMatches
<1>7. op'[c].pc = "loaded" BY <1>2
<1>8. Progress(op[c])' BY <1>7 DEF Progress
<1>9. api' = "serving" BY <1>0, <1>1 DEF startup
<1> QED BY <1>4, <1>6, <1>8, <1>9, OnlyStep

\* A request goes on while there is no other.
LEMMA InTurn ==
    ASSUME DocInv, MatchInv, alone', NEW c \in Clients, ClientStep(c)
    PROVE  /\ TypeOK /\ alone /\ api = "serving" /\ api' = "serving" /\ op[c].kind # "none"
           /\ op[c] \in Op /\ Holds(op[c])
           /\ \A e \in Clients \ {c} : op'[e] = NoOp
           /\ Progress(op[c])
           /\ \A d \in Docs : d \notin Touched(op[c]) => Match(d)
<1>1. TypeOK /\ op \in [Clients -> Op] /\ api = "serving" /\ Holds(op[c])
  BY TypedOps, ClientIsServed DEF DocInv
<1>2. op[c].kind # "none"
  BY DEF ClientStep, AddMakeDir, AddFlush, AddOpenFile, AddWriteFile, AddCommit,
         UpdateMakeDir, UpdateCommit, UpdateOpenFile, UpdateWriteFile,
         DeleteCommit, DeleteUnlink, DropCommit, DropRemoveTree, At
<1>3. Answer(c) \/ \E p \in Pcs : Goto(c, p)
  BY DEF ClientStep, AddMakeDir, AddFlush, AddOpenFile, AddWriteFile, AddCommit,
         UpdateMakeDir, UpdateCommit, UpdateOpenFile, UpdateWriteFile,
         DeleteCommit, DeleteUnlink, DropCommit, DropRemoveTree, OpenFile, Pcs
<1>4. UNCHANGED startup
  BY DEF ClientStep, AddMakeDir, AddFlush, AddOpenFile, AddWriteFile, AddCommit,
         UpdateMakeDir, UpdateCommit, UpdateOpenFile, UpdateWriteFile,
         DeleteCommit, DeleteUnlink, DropCommit, DropRemoveTree, OpenFile
<1>5. alone /\ \A e \in Clients \ {c} : op'[e] = op[e]
  BY <1>1, <1>3, AnswerDoes, GotoDoes
<1>6. op[c] # NoOp BY <1>2 DEF NoOp
<1> QED BY <1>1, <1>2, <1>4, <1>5, <1>6, OnlyOne DEF startup

LEMMA OthersMatch ==
    ASSUME NEW x \in Docs, row'[x] = row[x], file'[x] = file[x], Match(x)
    PROVE  Match(x)'
BY DEF Match, Stored

\* A request that goes on with its document.
LEMMA GoesOn ==
    ASSUME NEW c \in Clients, NEW d \in Docs, One(op[c], d), NEW p \in Pcs, TypeOK,
           Goto(c, p), api' = "serving", \A e \in Clients \ {c} : op'[e] = NoOp,
           op[c].kind = "update" /\ p \in {"flush", "write"} => dir',
           op[c].kind = "update" /\ p \in {"write", "writing"} => row'[d] = op[c].content,
           op[c].kind \in {"add", "update"} /\ p = "writing" => file'[d] = "partial",
           op[c].kind = "add" /\ p = "commit" => file'[d] = op[c].content,
           \A x \in Docs \ {d} : Match(x)',
           \/ Match(d)'
           \/ op[c].kind = "add" /\ p \in {"writing", "commit"}
           \/ op[c].kind = "update" /\ p \in {"write", "writing"}
           \/ op[c].kind = "delete" /\ p = "unlink"
    PROVE  MatchInv'
<1>1. /\ op'[c].kind = op[c].kind /\ op'[c].doc = {d}
      /\ op'[c].content = op[c].content /\ op'[c].pc = p
  BY GotoDoes DEF One
<1>2. Progress(op[c])' BY <1>1 DEF Progress
<1>3. Match(d)' \/ d \in Touched(op[c])' BY <1>1 DEF Touched
<1>4. \A x \in Docs : x \notin Touched(op[c])' => Match(x)' BY <1>3
<1> QED BY <1>2, <1>4, OnlyStep

LEMMA AddMatches ==
    ASSUME DocInv, MatchInv, alone', NEW c \in Clients, op[c].kind = "add",
           ClientStep(c)
    PROVE  MatchInv'
<1>1. /\ TypeOK /\ api' = "serving" /\ Holds(op[c]) /\ Progress(op[c])
      /\ \A e \in Clients \ {c} : op'[e] = NoOp
      /\ \A d \in Docs : d \notin Touched(op[c]) => Match(d)
  BY InTurn
<1>. PICK d \in Docs : d = DocOf(c) BY Writes
<1>2. One(op[c], d) /\ op[c].content \in Versions BY Writes
<1>3. \A x \in Docs \ {d} : Match(x) BY <1>1, <1>2 DEF One, Touched
<1>4. row[d] = "unused" BY <1>1, <1>2 DEF Holds, AddHolds, One
<1>5. CASE AddMakeDir(c) \/ AddFlush(c)
  <2>1. op[c].pc \in {"loaded", "flush"} /\ UNCHANGED <<row, file>>
    BY <1>5 DEF AddMakeDir, AddFlush, At
  <2>2. \A x \in Docs : Match(x)'
    <3>1. d \notin Touched(op[c]) BY <2>1 DEF Touched
    <3> QED BY <1>1, <1>3, <2>1, <3>1, UntouchedMatches
  <2>3. Answer(c) \/ \E p \in {"flush", "write"} : Goto(c, p)
    BY <1>5 DEF AddMakeDir, AddFlush
  <2>4. CASE Answer(c) BY <1>1, <2>2, <2>4, AnswerDoes, AnswerMatches
  <2>5. ASSUME NEW p \in {"flush", "write"}, Goto(c, p) PROVE MatchInv'
    BY <1>1, <1>2, <2>2, <2>5, GoesOn DEF Pcs
  <2> QED BY <2>3, <2>4, <2>5
<1>6. CASE AddOpenFile(c)
  <2>1. op[c].pc = "write" /\ UNCHANGED row BY <1>6 DEF AddOpenFile, OpenFile, At
  <2>2. CASE file' = [file EXCEPT ![d] = "partial"] /\ Goto(c, "writing")
    <3>1. file'[d] = "partial" /\ \A x \in Docs \ {d} : file'[x] = file[x]
      BY <1>1, <2>2 DEF TypeOK
    <3>2. \A x \in Docs \ {d} : Match(x)' BY <1>3, <2>1, <3>1, OthersMatch
    <3> QED BY <1>1, <1>2, <2>2, <3>1, <3>2, GoesOn DEF Pcs
  <2>3. CASE Answer(c) /\ UNCHANGED file
    <3>1. d \notin Touched(op[c]) BY <2>1 DEF Touched
    <3>2. \A x \in Docs : Match(x)' BY <1>1, <1>3, <2>1, <2>3, <3>1, UntouchedMatches
    <3> QED BY <1>1, <2>3, <3>2, AnswerDoes, AnswerMatches
  <2> QED BY <1>6, <2>2, <2>3 DEF AddOpenFile, OpenFile
<1>7. CASE AddWriteFile(c)
  <2>1. op[c].pc = "writing" /\ UNCHANGED row /\ Goto(c, "commit") /\ WriteFile(c)
    BY <1>7 DEF AddWriteFile, At
  <2>2. file[d] = "partial" BY <1>1, <1>2, <2>1 DEF Progress, One
  <2>3. file'[d] = op[c].content /\ \A x \in Docs \ {d} : file'[x] = file[x]
    BY <1>1, <2>1, <2>2 DEF WriteFile, TypeOK
  <2>4. \A x \in Docs \ {d} : Match(x)' BY <1>3, <2>1, <2>3, OthersMatch
  <2> QED BY <1>1, <1>2, <2>1, <2>3, <2>4, GoesOn DEF Pcs
<1>8. CASE AddCommit(c)
  <2>1. /\ op[c].pc = "commit" /\ UNCHANGED file /\ Answer(c)
        /\ row' = [row EXCEPT ![d] = op[c].content]
    BY <1>8 DEF AddCommit, At
  <2>2. row'[d] = op[c].content /\ \A x \in Docs \ {d} : row'[x] = row[x]
    BY <1>1, <2>1 DEF TypeOK
  <2>3. file[d] = op[c].content BY <1>1, <1>2, <2>1 DEF Progress, One
  <2>4. Match(d)' BY <1>2, <2>1, <2>2, <2>3 DEF Match, Stored
  <2>5. \A x \in Docs \ {d} : Match(x)' BY <1>3, <2>1, <2>2, OthersMatch
  <2> QED BY <1>1, <2>1, <2>4, <2>5, AnswerDoes, AnswerMatches
<1>9. AddMakeDir(c) \/ AddFlush(c) \/ AddOpenFile(c) \/ AddWriteFile(c) \/ AddCommit(c)
  BY DEF ClientStep, UpdateMakeDir, UpdateCommit, UpdateOpenFile, UpdateWriteFile,
         DeleteCommit, DeleteUnlink, DropCommit, DropRemoveTree, At
<1> QED BY <1>5, <1>6, <1>7, <1>8, <1>9

LEMMA UpdateMatches ==
    ASSUME DocInv, MatchInv, alone', NEW c \in Clients, op[c].kind = "update",
           ClientStep(c)
    PROVE  MatchInv'
<1>1. /\ TypeOK /\ api' = "serving" /\ Holds(op[c]) /\ Progress(op[c])
      /\ \A e \in Clients \ {c} : op'[e] = NoOp
      /\ \A d \in Docs : d \notin Touched(op[c]) => Match(d)
  BY InTurn
<1>. PICK d \in Docs : d = DocOf(c) BY Writes
<1>2. One(op[c], d) /\ op[c].content \in Versions BY Writes
<1>3. \A x \in Docs \ {d} : Match(x) BY <1>1, <1>2 DEF One, Touched
<1>4. CASE UpdateMakeDir(c)
  <2>1. /\ op[c].pc = "loaded" /\ UNCHANGED <<row, file>> /\ dir' = TRUE
        /\ Goto(c, "flush")
    BY <1>4 DEF UpdateMakeDir, At
  <2>2. d \notin Touched(op[c]) BY <2>1 DEF Touched
  <2>3. \A x \in Docs : Match(x)' BY <1>1, <1>3, <2>1, <2>2, UntouchedMatches
  <2> QED BY <1>1, <1>2, <2>1, <2>3, GoesOn DEF Pcs
<1>5. CASE UpdateCommit(c)
  <2>1. op[c].pc = "flush" /\ UNCHANGED <<file, dir>> BY <1>5 DEF UpdateCommit, At
  <2>2. CASE row' = [row EXCEPT ![d] = op[c].content] /\ Goto(c, "write")
    <3>1. row'[d] = op[c].content /\ \A x \in Docs \ {d} : row'[x] = row[x]
      BY <1>1, <2>2 DEF TypeOK
    <3>2. dir' BY <1>1, <2>1 DEF Progress
    <3>3. \A x \in Docs \ {d} : Match(x)' BY <1>3, <2>1, <3>1, OthersMatch
    <3> QED BY <1>1, <1>2, <2>2, <3>1, <3>2, <3>3, GoesOn DEF Pcs
  <2>3. CASE Answer(c) /\ UNCHANGED row
    <3>1. d \notin Touched(op[c]) BY <2>1 DEF Touched
    <3>2. \A x \in Docs : Match(x)' BY <1>1, <1>3, <2>1, <2>3, <3>1, UntouchedMatches
    <3> QED BY <1>1, <2>3, <3>2, AnswerDoes, AnswerMatches
  <2> QED BY <1>5, <2>2, <2>3 DEF UpdateCommit
<1>6. CASE UpdateOpenFile(c)
  <2>1. op[c].pc = "write" /\ UNCHANGED <<row, dir>> BY <1>6 DEF UpdateOpenFile, OpenFile, At
  <2>2. dir /\ row[d] = op[c].content BY <1>1, <1>2, <2>1 DEF Progress, One
  <2>3. file' = [file EXCEPT ![d] = "partial"] /\ Goto(c, "writing")
    BY <1>6, <2>2 DEF UpdateOpenFile, OpenFile
  <2>4. file'[d] = "partial" /\ \A x \in Docs \ {d} : file'[x] = file[x]
    BY <1>1, <2>3 DEF TypeOK
  <2>5. \A x \in Docs \ {d} : Match(x)' BY <1>3, <2>1, <2>4, OthersMatch
  <2> QED BY <1>1, <1>2, <2>1, <2>2, <2>3, <2>4, <2>5, GoesOn DEF Pcs
<1>7. CASE UpdateWriteFile(c)
  <2>1. op[c].pc = "writing" /\ UNCHANGED row /\ Answer(c) /\ WriteFile(c)
    BY <1>7 DEF UpdateWriteFile, At
  <2>2. file[d] = "partial" /\ row[d] = op[c].content
    BY <1>1, <1>2, <2>1 DEF Progress, One
  <2>3. file'[d] = op[c].content /\ \A x \in Docs \ {d} : file'[x] = file[x]
    BY <1>1, <2>1, <2>2 DEF WriteFile, TypeOK
  <2>4. Match(d)' BY <1>2, <2>1, <2>2, <2>3 DEF Match, Stored
  <2>5. \A x \in Docs \ {d} : Match(x)' BY <1>3, <2>1, <2>3, OthersMatch
  <2> QED BY <1>1, <2>1, <2>4, <2>5, AnswerDoes, AnswerMatches
<1>8. UpdateMakeDir(c) \/ UpdateCommit(c) \/ UpdateOpenFile(c) \/ UpdateWriteFile(c)
  BY DEF ClientStep, AddMakeDir, AddFlush, AddOpenFile, AddWriteFile, AddCommit,
         DeleteCommit, DeleteUnlink, DropCommit, DropRemoveTree, At
<1> QED BY <1>4, <1>5, <1>6, <1>7, <1>8

LEMMA DeleteMatches ==
    ASSUME DocInv, MatchInv, alone', NEW c \in Clients, op[c].kind = "delete",
           ClientStep(c)
    PROVE  MatchInv'
<1>1. /\ TypeOK /\ api' = "serving" /\ Holds(op[c])
      /\ \A e \in Clients \ {c} : op'[e] = NoOp
      /\ \A d \in Docs : d \notin Touched(op[c]) => Match(d)
  BY InTurn
<1>2. PICK d \in Docs : One(op[c], d) /\ (op[c].pc = "unlink" => row[d] = "gone")
  BY <1>1 DEF Holds, DeleteHolds
<1>3. DocOf(c) = d BY <1>2, DocOfOne
<1>4. \A x \in Docs \ {d} : Match(x) BY <1>1, <1>2 DEF One, Touched
<1>5. CASE DeleteCommit(c)
  <2>1. op[c].pc = "loaded" /\ UNCHANGED file BY <1>5 DEF DeleteCommit, At
  <2>2. CASE row' = [row EXCEPT ![d] = "gone"] /\ Goto(c, "unlink")
    <3>1. \A x \in Docs \ {d} : row'[x] = row[x] BY <1>1, <2>2 DEF TypeOK
    <3>2. \A x \in Docs \ {d} : Match(x)' BY <1>4, <2>1, <3>1, OthersMatch
    <3> QED BY <1>1, <1>2, <2>2, <3>2, GoesOn DEF Pcs
  <2>3. CASE Answer(c) /\ UNCHANGED row
    <3>1. d \notin Touched(op[c]) BY <2>1 DEF Touched
    <3>2. \A x \in Docs : Match(x)' BY <1>1, <1>4, <2>1, <2>3, <3>1, UntouchedMatches
    <3> QED BY <1>1, <2>3, <3>2, AnswerDoes, AnswerMatches
  <2> QED BY <1>3, <1>5, <2>2, <2>3 DEF DeleteCommit
<1>6. CASE DeleteUnlink(c)
  <2>1. /\ op[c].pc = "unlink" /\ UNCHANGED row /\ Answer(c)
        /\ file' = [file EXCEPT ![d] = "none"]
    BY <1>3, <1>6 DEF DeleteUnlink, At
  <2>2. file'[d] = "none" /\ \A x \in Docs \ {d} : file'[x] = file[x]
    BY <1>1, <2>1 DEF TypeOK
  <2>3. Match(d)' BY <1>2, <2>1, <2>2, DocumentStoreAssumption DEF Match, Stored
  <2>4. \A x \in Docs \ {d} : Match(x)' BY <1>4, <2>1, <2>2, OthersMatch
  <2> QED BY <1>1, <2>1, <2>3, <2>4, AnswerDoes, AnswerMatches
<1>7. DeleteCommit(c) \/ DeleteUnlink(c)
  BY DEF ClientStep, AddMakeDir, AddFlush, AddOpenFile, AddWriteFile, AddCommit,
         UpdateMakeDir, UpdateCommit, UpdateOpenFile, UpdateWriteFile,
         DropCommit, DropRemoveTree, At
<1> QED BY <1>5, <1>6, <1>7

LEMMA DropMatches ==
    ASSUME DocInv, MatchInv, alone', NEW c \in Clients, op[c].kind = "drop",
           ClientStep(c)
    PROVE  MatchInv'
<1>1. /\ TypeOK /\ api' = "serving" /\ Holds(op[c])
      /\ \A e \in Clients \ {c} : op'[e] = NoOp
      /\ \A d \in Docs : d \notin Touched(op[c]) => Match(d)
  BY InTurn
<1>2. CASE DropCommit(c)
  <2>1. op[c].pc = "loaded" /\ UNCHANGED file BY <1>2 DEF DropCommit, At
  <2>2. CASE Goto(c, "rmtree")
    <3>1. op'[c].kind = "drop" /\ op'[c].pc = "rmtree"
      BY <1>1, <2>2, GotoDoes DEF Pcs
    <3>2. Progress(op[c])' /\ \A d \in Docs : d \in Touched(op[c])'
      BY <3>1 DEF Progress, Touched
    <3> QED BY <1>1, <3>2, OnlyStep
  <2>3. CASE Answer(c) /\ UNCHANGED row
    <3>1. Touched(op[c]) = {} BY <2>1 DEF Touched
    <3>2. \A x \in Docs : Match(x)' BY <1>1, <2>1, <2>3, <3>1, UntouchedMatches
    <3> QED BY <1>1, <2>3, <3>2, AnswerDoes, AnswerMatches
  <2> QED BY <1>2, <2>2, <2>3 DEF DropCommit
<1>3. CASE DropRemoveTree(c)
  <2>1. op[c].pc = "rmtree" /\ UNCHANGED row /\ Answer(c) /\ file' = [d \in Docs |-> "none"]
    BY <1>3 DEF DropRemoveTree, At
  <2>2. \A d \in Docs : ~Stored(d)
    BY <1>1, <2>1 DEF Holds, DropHolds, DocInv, DeletedCollectionIsEmpty
  <2>3. \A d \in Docs : Match(d)' BY <2>1, <2>2 DEF Match, Stored
  <2> QED BY <1>1, <2>1, <2>3, AnswerDoes, AnswerMatches
<1>4. DropCommit(c) \/ DropRemoveTree(c)
  BY DEF ClientStep, AddMakeDir, AddFlush, AddOpenFile, AddWriteFile, AddCommit,
         UpdateMakeDir, UpdateCommit, UpdateOpenFile, UpdateWriteFile,
         DeleteCommit, DeleteUnlink, At
<1> QED BY <1>2, <1>3, <1>4

\* The process starts, seeds, or is killed while nobody is served.
LEMMA ProcessMatches ==
    ASSUME DocInv, MatchInv, alone', ProcessStep
    PROVE  MatchInv'
<1>1. TypeOK /\ alone BY DEF DocInv, TypeOK, ProcessStep, Start, SeedCommit, SeedOpenFile,
                            SeedWriteFile, Crash
<1>2. \A c \in Clients : op[c] = NoOp /\ op'[c] = NoOp
  BY DEF DocInv, SeedInv, ProcessStep, Start, SeedCommit, SeedOpenFile, SeedWriteFile, Crash
<1>3. \A c \in Clients : Touched(op[c]) = {} /\ Progress(op[c])'
  BY <1>2 DEF Touched, Progress, NoOp
<1>4. api # "seeding" => \A d \in Docs : Match(d)
  BY <1>1, <1>3 DEF MatchInv
<1>5. SeedProgress BY <1>1 DEF MatchInv
<1>6. SUFFICES SeedProgress' /\ (api' # "seeding" => \A d \in Docs : Match(d)')
  BY <1>2, <1>3 DEF MatchInv
<1>7. CASE Start
  <2>1. api = "off" /\ UNCHANGED <<row, file>> /\ toSeed' \cup seeded' \subseteq Seeds /\ seeded' = {}
    BY <1>1, <1>7 DEF Start, TypeOK
  <2>2. \A d \in Docs : Match(d) /\ Match(d)' BY <1>4, <2>1, UntouchedMatches
  <2>3. api' = "seeding" => \A d \in Docs : file'[d] = "none"
    <3>1. api' = "seeding" => ~collection BY <1>7 DEF Start, SeedMissing
    <3> QED BY <2>1, <2>2, <3>1 DEF DocInv, DeletedCollectionIsEmpty, Match
  <2> QED BY <2>1, <2>2, <2>3 DEF SeedProgress
<1>8. ASSUME NEW s \in Seeds, SeedOpenFile(s) \/ SeedWriteFile(s)
      PROVE  SeedProgress' /\ api' = "seeding"
  <2>1. s \in Docs BY DocumentStoreAssumption
  <2>2. /\ api = "seeding" /\ api' = "seeding" /\ s \in toSeed /\ s \notin seeded
        /\ toSeed \cup seeded = toSeed' \cup seeded' /\ seeded' \subseteq seeded \cup {s}
        /\ \A d \in Docs \ {s} : file'[d] = file[d]
        /\ s \in seeded' => file'[s] = SeedText
    BY <1>1, <1>8, <2>1 DEF SeedOpenFile, SeedWriteFile, startup, TypeOK
  <2> QED BY <1>5, <2>1, <2>2 DEF SeedProgress
<1>9. CASE SeedCommit
  <2>1. \A d \in Docs : ~Stored(d)
    BY <1>9 DEF SeedCommit, DocInv, SeedInv, DeletedCollectionIsEmpty
  <2>2. /\ UNCHANGED file /\ api' = "serving" /\ toSeed = {} /\ api = "seeding"
        /\ \A d \in Docs : row'[d] = IF d \in seeded THEN SeedText ELSE row[d]
    BY <1>9 DEF SeedCommit
  <2>3. ASSUME NEW d \in Docs PROVE Match(d)'
    <3>1. CASE d \in seeded
      BY <1>5, <2>2, <3>1, DocumentStoreAssumption DEF SeedProgress, Match, Stored
    <3>2. CASE d \notin seeded
      BY <1>5, <2>1, <2>2, <3>2 DEF SeedProgress, Match, Stored
    <3> QED BY <3>1, <3>2
  <2> QED BY <2>2, <2>3 DEF SeedProgress
<1>10. CASE Crash
  <2>1. api = "serving" /\ api' = "off" /\ UNCHANGED <<row, file>>
    BY <1>10 DEF Crash
  <2>2. \A d \in Docs : Match(d)' BY <1>4, <2>1, UntouchedMatches
  <2> QED BY <2>1, <2>2 DEF SeedProgress
<1> QED BY <1>7, <1>8, <1>9, <1>10 DEF ProcessStep

LEMMA MatchStep == DocInv /\ MatchInv /\ [Next]_vars => MatchInv'
<1>. SUFFICES ASSUME DocInv, MatchInv, [Next]_vars, alone' PROVE MatchInv'
  BY DEF MatchInv
<1>1. ASSUME NEW c \in Clients, ClientStep(c) PROVE MatchInv'
  <2>1. op[c].kind # "none" /\ op[c] \in Op BY <1>1, InTurn
  <2> QED BY <1>1, <2>1, AddMatches, UpdateMatches, DeleteMatches, DropMatches DEF Op, Kinds
<1>2. CASE UNCHANGED vars
  BY <1>2 DEF vars, startup, MatchInv, Progress, SeedProgress, Match, Stored, Touched
<1> QED BY <1>1, <1>2, NextSplits, BeginMatches, ProcessMatches

LEMMA MatchInit == Init => MatchInv
<1>. SUFFICES ASSUME Init PROVE MatchInv OBVIOUS
<1>1. \A c \in Clients : op[c] = NoOp /\ Progress(op[c]) BY DEF Init, Progress, NoOp
<1>2. \A d \in Docs : Match(d) BY DocumentStoreAssumption DEF Init, Match, Stored
<1> QED BY <1>1, <1>2 DEF Init, MatchInv, SeedProgress

\* When requests come one after the other and no kill cuts one short, every
\* document's file holds the recorded content between requests, and there is no
\* other file (collections.py).
THEOREM FilesAlwaysMatchRows == Spec => []FilesMatchRows
<1>1. Spec => []MatchInv BY MatchInit, MatchStep, DocInvAlways, PTL DEF Spec
<1>2. MatchInv => FilesMatchRows
  <2>. SUFFICES ASSUME MatchInv, Quiet, NEW d \in Docs PROVE Match(d)
    BY DEF FilesMatchRows, Match
  <2>1. \A c \in Clients : Touched(op[c]) = {} BY NoOpTouches DEF Quiet
  <2> QED BY <2>1 DEF MatchInv, Quiet
<1> QED BY <1>1, <1>2, PTL
=============================================================================
