-------------------------------- MODULE Drawings --------------------------------
(***************************************************************************)
(* Revisions of a drawing (web/lib/drawings/upload.ts): the chain is read, *)
(* its current revision is taken back, the file is stored, a reference is  *)
(* minted, the new revision is inserted and a DXF is queued for            *)
(* conversion.  Six calls, each of which can fail, and no transaction.     *)
(***************************************************************************)
EXTENDS Numbering, Sequences, FiniteSets

CONSTANTS
    Uploads,    \* each uploads one revision of the chain
    Dxf         \* those that upload a DXF, the others a PDF

ASSUME DrawingsAssumption == Dxf \subseteq Uploads

VARIABLES
    chain,      \* the drawings rows of one root, in the order of insertion
    uploading,  \* per upload: its next step
    revNo,      \* per upload: the revision number it has chosen
    current,    \* per upload: the rows it has read as current
    ref,        \* per upload: the number it has minted, 0 before
    jobs,       \* rows queued as dxf_to_svg
    met         \* history: uploads that ran at the same time as another

uploadVars == <<uploading, revNo, current, ref, met>>
drawingsVars == <<last, chain, jobs, uploadVars>>

Row == [rev : Nat, current : BOOLEAN, ref : Nat, by : Uploads \cup {"root"},
        status : {"PENDING", "PROCESSING", "READY", "FAILED"}]

DrawingsTypeOK ==
    /\ NumberingTypeOK
    /\ chain \in Seq(Row)
    /\ uploading \in [Uploads -> {"read", "unset", "mint", "insert", "queue",
                                  "done", "failed"}]
    /\ revNo \in [Uploads -> Nat]
    /\ current \in [Uploads -> SUBSET (1..Len(chain))]
    /\ ref \in [Uploads -> 0..last["drawing"]]
    /\ jobs \subseteq 1..Len(chain)
    /\ met \subseteq Uploads

DrawingsInit ==
    /\ NumberingInit
    /\ chain = <<[rev |-> 1, current |-> TRUE, ref |-> 1, by |-> "root",
                  status |-> "READY"]>>
    /\ uploading = [u \in Uploads |-> "read"]
    /\ revNo = [u \in Uploads |-> 0]
    /\ current = [u \in Uploads |-> {}]
    /\ ref = [u \in Uploads |-> 0]
    /\ jobs = {}
    /\ met = {}

\* A variant with a longer name before a definition is a plausible mistake in
\* the same lines, which the properties must tell from the code.

UploadGoto(u, step) == uploading' = [uploading EXCEPT ![u] = step]
Under == {u \in Uploads : uploading[u] \in {"unset", "mint", "insert", "queue"}}

MaxRev == CHOOSE n \in {chain[k].rev : k \in DOMAIN chain} :
              \A k \in DOMAIN chain : chain[k].rev <= n

ReadChain(u) ==
    /\ uploading[u] = "read"
    /\ revNo' = [revNo EXCEPT ![u] = MaxRev + 1]
    /\ current' = [current EXCEPT ![u] = {k \in DOMAIN chain : chain[k].current}]
    /\ met' = IF Under = {} THEN met ELSE met \cup Under \cup {u}
    /\ UploadGoto(u, "unset")
    /\ UNCHANGED <<last, chain, ref, jobs>>

UnsetNone(u) ==
    /\ uploading[u] = "unset"
    /\ UploadGoto(u, "mint")
    /\ UNCHANGED <<last, chain, revNo, current, ref, jobs, met>>

UnsetCurrent(u) ==
    /\ uploading[u] = "unset"
    /\ chain' = [k \in DOMAIN chain |->
                   [chain[k] EXCEPT !.current = @ /\ k \notin current[u]]]
    /\ UploadGoto(u, "mint")
    /\ UNCHANGED <<last, revNo, current, ref, jobs, met>>

\* After the storage upload, which repeats harmlessly: the key is the hash.
MintDrawing(u) ==
    /\ uploading[u] = "mint"
    /\ NextRef("drawing")
    /\ ref' = [ref EXCEPT ![u] = last'["drawing"]]
    /\ UploadGoto(u, "insert")
    /\ UNCHANGED <<chain, revNo, current, jobs, met>>

NewRow(u) ==
    [rev |-> revNo[u], current |-> TRUE, ref |-> ref[u], by |-> u,
     status |-> IF u \in Dxf THEN "PENDING" ELSE "READY"]

InsertUnlessCurrent(u) ==
    /\ uploading[u] = "insert"
    /\ chain' = Append(chain, [NewRow(u) EXCEPT
                   !.current = \A k \in DOMAIN chain : ~chain[k].current])
    /\ UploadGoto(u, IF u \in Dxf THEN "queue" ELSE "done")
    /\ UNCHANGED <<last, revNo, current, ref, jobs, met>>

InsertDrawing(u) ==
    /\ uploading[u] = "insert"
    /\ chain' = Append(chain, NewRow(u))
    /\ UploadGoto(u, IF u \in Dxf THEN "queue" ELSE "done")
    /\ UNCHANGED <<last, revNo, current, ref, jobs, met>>

RowOf(u) == CHOOSE k \in DOMAIN chain : chain[k].by = u

EnqueueConversion(u) ==
    /\ uploading[u] = "queue"
    /\ jobs' = jobs \cup {RowOf(u)}
    /\ UploadGoto(u, "done")
    /\ UNCHANGED <<last, chain, revNo, current, ref, met>>

EnqueueFails(u) ==
    /\ uploading[u] = "queue"
    /\ chain' = [chain EXCEPT ![RowOf(u)].status = "FAILED"]
    /\ UploadGoto(u, "done")
    /\ UNCHANGED <<last, revNo, current, ref, jobs, met>>

\* A call answers with an error, or the server process is gone.
UploadFails(u) ==
    /\ uploading[u] \in {"unset", "mint", "insert", "queue"}
    /\ UploadGoto(u, "failed")
    /\ UNCHANGED <<last, chain, revNo, current, ref, jobs, met>>

\* The worker takes the row in hand, and writes the result of the conversion.
StartConversion(k) ==
    /\ k \in jobs
    /\ chain' = [chain EXCEPT ![k].status = "PROCESSING"]
    /\ UNCHANGED <<last, jobs, uploadVars>>

Convert(k) ==
    /\ k \in jobs
    /\ chain[k].status = "PROCESSING"
    /\ jobs' = jobs \ {k}
    /\ \E st \in {"READY", "FAILED"} : chain' = [chain EXCEPT ![k].status = st]
    /\ UNCHANGED <<last, uploadVars>>

DrawingsNext ==
    \/ \E u \in Uploads :
          \/ ReadChain(u) \/ UnsetCurrent(u) \/ MintDrawing(u) \/ InsertDrawing(u)
          \/ EnqueueConversion(u) \/ EnqueueFails(u) \/ UploadFails(u)
    \/ \E k \in jobs : StartConversion(k) \/ Convert(k)

DrawingsSpec == DrawingsInit /\ [][DrawingsNext]_drawingsVars

-------------------------------------------------------------------------------
(* Properties.                                                              *)

\* Whatever uploads do at the same time, the newest row is current until an
\* upload that has read it as current takes it back to replace it: a revision
\* is never lost from sight by somebody else's upload.
NewestIsCurrent ==
    \/ chain[Len(chain)].current
    \/ \E u \in Uploads : Len(chain) \in current[u] /\ uploading[u] # "done"

\* An upload that ran alone leaves its revision the highest and the only current
\* one, even after uploads that met or failed left several or none: until the
\* next upload takes it back to replace it, and stays without one if that fails.
AloneIsOnlyCurrent ==
    LET newest == Len(chain)
    IN  chain[newest].by \notin met =>
            /\ \A k \in 1..newest - 1 : /\ ~chain[k].current
                                        /\ chain[k].rev < chain[newest].rev
            /\ Under = {} /\ (\A u \in Uploads : uploading[u] = "failed" =>
                                  newest \notin current[u]) =>
                  chain[newest].current

\* "Gap-free": every number of the scope is on one row, or with an upload that
\* has yet to insert it or failed to.
DrawingRefs ==
    LET onRows == {chain[k].ref : k \in DOMAIN chain}
        held == {ref[u] : u \in {v \in Uploads : uploading[v] \in {"insert", "failed"}}}
    IN  /\ 1..last["drawing"] \subseteq onRows \cup held
        /\ \A k, l \in DOMAIN chain : chain[k].ref = chain[l].ref => k = l
===============================================================================
