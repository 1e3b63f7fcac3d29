-------------------------- MODULE ServerDiagClient --------------------------
(* The diagnostics that a driver has collected per document, which of them   *)
(* changed since they were last sent, and what the editor shows              *)
(* (src/ServerDiagClient.cpp).  The diagnostics of a document are a sequence *)
(* of reports; what a report says is left to the module that issues it.      *)
EXTENDS Naturals, Sequences

CONSTANTS Uris, Reports, MaxReports    \* bound on the reports of a document

VARIABLE dc    \* m_diagnostics, m_dirtyUris and the editor's view

DiagClients == [diags : [Uris -> Seq(Reports)], dirty : SUBSET Uris,
                shown : [Uris -> Seq(Reports)]]

NoDiags == [u \in Uris |-> <<>>]

\* the constructor, with whatever the editor shows from before
NewClient(shown) == [diags |-> NoDiags, dirty |-> {}, shown |-> shown]

\* (wrong: a document is dirty only with its first diagnostic)
ReportFirst(c, u, r) ==
  [c EXCEPT !.diags[u] = Append(@, r), !.dirty = IF c.diags[u] = <<>> THEN @ \cup {u} ELSE @]

\* A diagnostic of a kind that is published; the ignored kinds change nothing.
Report(c, u, r) ==
  [c EXCEPT !.diags[u] = Append(@, r), !.dirty = @ \cup {u}]

\* clear(uri): the editor keeps the old diagnostics until the next push
ClearUri(c, u) ==
  [c EXCEPT !.diags[u] = <<>>, !.dirty = @ \cup {u}]

\* clear()
ClearAll(c) ==
  [c EXCEPT !.diags = NoDiags, !.dirty = @ \cup {u \in Uris : c.diags[u] # <<>>}]

\* clearAndPush(): withdraw everything collected or announced
ClearAndPush(c) ==
  [diags |-> NoDiags, dirty |-> {},
   shown |-> [u \in Uris |-> IF c.diags[u] # <<>> \/ u \in c.dirty THEN <<>> ELSE c.shown[u]]]

\* pushDiags(), and pushDiags(priorityUri), which only sends that one first
PushDiags(c) ==
  [c EXCEPT !.dirty = {},
            !.shown = [u \in Uris |-> IF u \in c.dirty THEN c.diags[u] ELSE c.shown[u]]]

----------------------------------------------------------------------------
(* Any sequence of these calls                                               *)

Init == dc = NewClient(NoDiags)

Next ==
  \/ \E u \in Uris, r \in Reports : Len(dc.diags[u]) < MaxReports /\ dc' = Report(dc, u, r)
  \/ \E u \in Uris : dc' = ClearUri(dc, u)
  \/ dc' = ClearAll(dc)
  \/ dc' = ClearAndPush(dc)
  \/ dc' = PushDiags(dc)

Spec == Init /\ [][Next]_dc

TypeOK == dc \in DiagClients

(* The editor shows what the driver has collected, except for documents that *)
(* the next push will bring up to date: no order of reports, clears and      *)
(* pushes leaves a diagnostic on screen that nobody will withdraw.           *)
CleanMeansShown == \A u \in Uris \ dc.dirty : dc.shown[u] = dc.diags[u]

(* Withdrawing everything leaves nothing on screen, whatever was reported,   *)
(* cleared or pushed before: the new driver starts from an empty editor.     *)
WithdrawingLeavesNothing == [][dc' = ClearAndPush(dc) => dc'.shown = NoDiags]_dc
=============================================================================
