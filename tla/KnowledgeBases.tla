--------------------------- MODULE KnowledgeBases ---------------------------
(***************************************************************************)
(* Knowledge bases and the lists of their documents (api/routers/kb.py,    *)
(* api/routers/docs.py, core/permissions.py, the paginated queries of      *)
(* core/infrastructure/db/repositories.py and the page that turns them).   *)
(*                                                                         *)
(* What a document goes through inside a base is the matter of             *)
(* DocumentIndexing; here it has a row, a status and an object, and the    *)
(* interest is in what deleting the base, or turning the pages, does to it.*)
(*                                                                         *)
(* delete_knowledge_base deletes the base through the ORM.  Its            *)
(* relationship to documents has neither a cascade nor passive_deletes, so *)
(* the flush first SELECTs the documents and conversations of the base,    *)
(* and sets their knowledge_base_id to NULL, which documents refuse; the   *)
(* foreign key's ON DELETE CASCADE works only on rows that SELECT missed.  *)
(***************************************************************************)
EXTENDS Naturals, FiniteSets, SequencesExt

CONSTANTS
    Users, Profile,     \* Profile[u]: tenant, department and role of a user
    Departments,        \* Departments[t]: the departments of a tenant
    NoDepartment,
    Bases, Files, Talks, \* ids of bases, uploaded files, conversations
    TitleOf,            \* title of each file, a number
    ChunkCount,         \* chunks of a document
    AllowedSizes, LargestSize, DefaultSize,  \* 10, 25, 50; 100; 10 in the code
    AskedSizes          \* page sizes a page asks for

ASSUME KnowledgeBasesAssumption ==
    /\ AllowedSizes \cup AskedSizes \cup {LargestSize, DefaultSize} \subseteq Nat \ {0}
    /\ \A u \in Users : Profile[u].role \in {"admin", "training_admin", "user"}
    /\ IsFiniteSet(Files) /\ TitleOf \in [Files -> Nat] /\ ChunkCount \in Nat

VARIABLES
    base,      \* rows of knowledge_bases
    file,      \* each upload and the row it becomes
    objects,   \* files whose object is in MinIO
    removal,   \* the DELETE request of each base
    talk       \* base each conversation is bound to

kbVars == <<base, file, objects, removal, talk>>

-----------------------------------------------------------------------------
(* Who may do what. *)

Managers == {"admin", "training_admin"}

\* A super admin sees the tenant; others their department and what has none.
VisibleBase(u, b) ==
    /\ base[b].at = "here"
    /\ base[b].tenant = Profile[u].tenant
    /\ Profile[u].role = "admin" \/ base[b].dept \in {NoDepartment, Profile[u].dept}

CanManage(u, b) ==
    Profile[u].role \in Managers /\ base[b].tenant = Profile[u].tenant

MayManage(u, b) == VisibleBase(u, b) /\ CanManage(u, b)

-----------------------------------------------------------------------------
(* The lists. *)

\* Rows a tab of the page selects.
InTab(f, tab) ==
    \/ tab = "all"
    \/ tab = "indexing" /\ file[f].status \in {"pending", "indexing"}
    \/ tab \in {"ready", "error"} /\ file[f].status = tab

RowsOf(b) == {f \in Files : file[f].at = "row" /\ file[f].base = b}

ChunksOfFile(f) ==
    IF file[f].status = "ready" THEN {<<f, n>> : n \in 1..ChunkCount} ELSE {}

Listed(r) ==
    IF r.of = "documents" THEN {f \in RowsOf(r.base) : InTab(f, r.tab)}
    ELSE UNION {ChunksOfFile(f) : f \in RowsOf(r.base) \cap {r.file}}

\* Orders a statement may answer in: equal titles come in any order.
NotAfter(r, x, y) ==
    CASE r.of = "chunks" -> x[2] <= y[2]
      [] r.of = "documents" /\ r.sort = "created" -> file[x].created >= file[y].created
      [] OTHER -> TitleOf[x] <= TitleOf[y]

AnswerOrders(r) ==
    {s \in SetToSeqs(Listed(r)) : \A i, j \in DOMAIN s : i < j => NotAfter(r, s[i], s[j])}

\* A size the server does not allow becomes another; chunks come in the size asked for.
ServedSize(r) ==
    IF r.of = "chunks" \/ r.asked \in AllowedSizes THEN r.asked
    ELSE IF r.asked > LargestSize THEN LargestSize ELSE DefaultSize

\* MUTANT: the offset counts pages from zero.
PageFromZero(s, page, size) ==
    SubSeq(s, page * size + 1, IF (page + 1) * size < Len(s) THEN (page + 1) * size ELSE Len(s))

PageOf(s, page, size) ==
    SubSeq(s, (page - 1) * size + 1, IF page * size < Len(s) THEN page * size ELSE Len(s))

\* The page divides the total by the size it asked for.
PageCount(total, asked) ==
    IF total = 0 THEN 1 ELSE (total + asked - 1) \div asked

\* What a page turned from its first to its last list has shown, each list answered
\* in one of the orders.
Shown(r, answers) ==
    FlattenSeq([p \in DOMAIN answers |-> PageOf(answers[p], p, ServedSize(r))])

Turns(r) ==
    {Shown(r, answers) :
        answers \in [1..PageCount(Cardinality(Listed(r)), r.asked) -> AnswerOrders(r)]}

Here == {b \in Bases : base[b].at = "here"}

PageLists ==
    [of : {"documents"}, base : Here, asked : AskedSizes, sort : {"created", "name"},
     tab : {"all", "ready", "indexing", "error"}]
    \cup [of : {"chunks"}, base : Here, file : Files, asked : AskedSizes]

UniqueOrder(r) ==
    r.of = "documents" => r.sort = "created" \/ \A x, y \in Listed(r) : TitleOf[x] = TitleOf[y] => x = y

-----------------------------------------------------------------------------

KnowledgeBasesInit ==
    /\ base = [b \in Bases |-> [at |-> "none", tenant |-> "none", dept |-> NoDepartment,
                                name |-> "given", by |-> "none"]]
    /\ file = [f \in Files |-> [at |-> "new", base |-> "none", status |-> "pending",
                                created |-> 0, raced |-> FALSE, stuck |-> FALSE]]
    /\ objects = {}
    /\ removal = [b \in Bases |-> [at |-> "idle", docs |-> {}, talks |-> {}, met |-> FALSE]]
    /\ talk = [c \in Talks |-> "new"]

CreateBase(u, b, asked) ==
    /\ base[b].at = "none"
    /\ Profile[u].role \in Managers
    /\ LET t == Profile[u].tenant IN
       /\ Profile[u].role = "admin" => asked \in Departments[t] \cup {NoDepartment}
       /\ base' = [base EXCEPT ![b] =
            [at |-> "here", tenant |-> t, name |-> "given", by |-> u,
             dept |-> IF Profile[u].role = "admin" \/ asked = NoDepartment
                      THEN asked ELSE Profile[u].dept]]
    /\ UNCHANGED <<file, objects, removal, talk>>

RenameBase(u, b) ==
    /\ MayManage(u, b)
    /\ base' = [base EXCEPT ![b].name = "changed"]
    /\ UNCHANGED <<file, objects, removal, talk>>

-----------------------------------------------------------------------------
(* Uploads: permission, object, row.  Nothing holds the base in between. *)

AdmitUpload(u, f, b) ==
    /\ file[f].at = "new"
    /\ MayManage(u, b)
    /\ file' = [file EXCEPT ![f].at = "admitted", ![f].base = b]
    /\ UNCHANGED <<base, objects, removal, talk>>

PutObject(f) ==
    /\ file[f].at = "admitted"
    /\ \/ /\ objects' = objects \cup {f}
          /\ file' = [file EXCEPT ![f].at = "put"]
       \/ /\ file' = [file EXCEPT ![f].at = "rejected"]
          /\ UNCHANGED objects
    /\ UNCHANGED <<base, removal, talk>>

\* Objects and whether the removal was swallowed.
Discard(f, at) ==
    \/ /\ objects' = objects \ {f}
       /\ file' = [file EXCEPT ![f].at = at]
    \/ /\ objects' = objects
       /\ file' = [file EXCEPT ![f].at = at, ![f].stuck = TRUE]

\* The foreign key refuses the row of a base that is gone.
InsertRow(f) ==
    /\ file[f].at = "put"
    /\ LET b == file[f].base IN
       \/ /\ base[b].at = "here"
          /\ file' = [file EXCEPT ![f].at = "row",
                        ![f].created = 1 + Cardinality({g \in Files : file[g].created > 0}),
                        ![f].raced = removal[b].at = "loaded"]
          /\ removal' = [removal EXCEPT ![b].met = @ \/ removal[b].at = "loaded"]
          /\ UNCHANGED objects
       \/ /\ base[b].at # "here"
          /\ Discard(f, "rejected")
          /\ UNCHANGED removal
    /\ UNCHANGED <<base, talk>>

DeleteRow(u, f) ==
    /\ file[f].at = "row"
    /\ MayManage(u, file[f].base)
    /\ Discard(f, "deleted")
    /\ UNCHANGED <<base, removal, talk>>

\* The worker's writes of the status.
SetStatus(f) ==
    /\ file[f].at = "row"
    /\ \/ file[f].status = "pending" /\ file' = [file EXCEPT ![f].status = "indexing"]
       \/ /\ file[f].status = "indexing"
          /\ \E s \in {"ready", "failed"} : file' = [file EXCEPT ![f].status = s]
    /\ UNCHANGED <<base, objects, removal, talk>>

\* A chat request opens a conversation on a base it may see.
OpenTalk(u, c, b) ==
    /\ talk[c] = "new"
    /\ VisibleBase(u, b)
    /\ talk' = [talk EXCEPT ![c] = b]
    /\ removal' = [removal EXCEPT ![b].met = @ \/ removal[b].at = "loaded"]
    /\ UNCHANGED <<base, file, objects>>

-----------------------------------------------------------------------------
(* Deleting a base. *)

LoadBase(u, b) ==
    /\ removal[b].at \in {"idle", "refused"}
    /\ MayManage(u, b)
    /\ removal' = [removal EXCEPT ![b] =
         [at |-> "loaded", docs |-> RowsOf(b), talks |-> {c \in Talks : talk[c] = b}, met |-> FALSE]]
    /\ UNCHANGED <<base, file, objects, talk>>

\* MUTANT: the database's cascade is left to remove the documents.
RefusesTalksOnly(b) == \E c \in Talks : talk[c] = b /\ c \notin removal[b].talks

\* NULL in the rows it loaded, then the DELETE: a loaded document refuses the first,
\* a conversation it did not load the second.
Refuses(b) ==
    \/ removal[b].docs # {}
    \/ \E c \in Talks : talk[c] = b /\ c \notin removal[b].talks

DropBase(b) ==
    /\ removal[b].at = "loaded"
    /\ IF Refuses(b)
       THEN /\ removal' = [removal EXCEPT ![b].at = "refused"]
            /\ UNCHANGED <<base, file, talk>>
       ELSE /\ removal' = [removal EXCEPT ![b].at = "done"]
            /\ base' = [base EXCEPT ![b].at = "gone"]
            /\ file' = [f \in Files |-> IF f \in RowsOf(b)
                                        THEN [file[f] EXCEPT !.at = "cascaded"] ELSE file[f]]
            /\ talk' = [c \in Talks |-> IF talk[c] = b THEN "unbound" ELSE talk[c]]
    /\ UNCHANGED objects

-----------------------------------------------------------------------------

KnowledgeBasesNext ==
    \/ \E u \in Users, b \in Bases :
         \/ \E asked \in {NoDepartment} \cup UNION {Departments[Profile[v].tenant] : v \in Users} :
              CreateBase(u, b, asked)
         \/ RenameBase(u, b)
         \/ LoadBase(u, b)
         \/ \E f \in Files : AdmitUpload(u, f, b)
         \/ \E c \in Talks : OpenTalk(u, c, b)
    \/ \E f \in Files :
         PutObject(f) \/ InsertRow(f) \/ SetStatus(f) \/ \E u \in Users : DeleteRow(u, f)
    \/ \E b \in Bases : DropBase(b)

KnowledgeBasesSpec == KnowledgeBasesInit /\ [][KnowledgeBasesNext]_kbVars

-----------------------------------------------------------------------------
(* Properties. *)

\* Whoever creates a base sees it and may manage it, whatever department it was
\* given and however the request named it.
CreatorManages ==
    \A b \in Bases : base[b].at = "here" => MayManage(base[b].by, b)

\* Deleting a base takes no document with it that had its row when the deletion looked
\* for documents; one that came after is taken by the database's cascade.
DeletionSparesDocuments ==
    \A f \in Files : file[f].at = "cascaded" => file[f].raced

\* Once no upload is under way, an object without a row is one whose removal failed or
\* whose row fell to a deletion of its base that raced with the upload.
ObjectsFollowRows ==
    \A f \in objects :
        \/ file[f].at \in {"admitted", "put", "row"}
        \/ file[f].stuck
        \/ file[f].at = "cascaded" /\ file[f].raced

\* Turning a list from its first page to its last shows every row exactly once, when
\* nothing changes meanwhile, its order is unique and the server allows the size.
PagesShowAll ==
    \A r \in PageLists : UniqueOrder(r) /\ ServedSize(r) = r.asked =>
        \A seen \in Turns(r) : ToSet(seen) = Listed(r) /\ Len(seen) = Cardinality(Listed(r))

\* Bases, their objects and their pages agree with the rows.
BasesInv == CreatorManages /\ ObjectsFollowRows /\ PagesShowAll

\* The same without the condition on the size; false: the page counts its pages with
\* the size it asked for, the server answers with another.
AnySizeShowsAll ==
    \A r \in PageLists : UniqueOrder(r) => \A seen \in Turns(r) : ToSet(seen) = Listed(r)

\* A base is deleted when its manager asks and nothing is added to it meanwhile; false
\* as soon as it holds a document.
BaseIsDeletable ==
    \A b \in Bases : removal[b].at = "refused" => removal[b].met

\* Every document is under one of the tabs that divide the list; false for a document
\* whose indexing failed: the worker writes "failed", the list knows "error".
EveryRowHasTab ==
    \A f \in Files : file[f].at = "row" =>
        \E tab \in {"ready", "indexing", "error"} : InTab(f, tab)
=============================================================================
