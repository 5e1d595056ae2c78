------------------------------ MODULE PagedQuery ------------------------------
(***************************************************************************)
(* One collection from Resource Graph: collect, _run_paged_query and       *)
(* _execute_with_retry in azure_resource_graph.py.  discover_filesystems   *)
(* in azure_managed_lustre.py does the same for another query.  Pages are  *)
(* requested one after another, each with its own budget of retries; when  *)
(* the last one is there the rows are normalized.                          *)
(*                                                                         *)
(* Resource Graph is external: it may answer, fail in a way that is worth  *)
(* a retry or not, or answer with something that is no list of rows.  The  *)
(* delays between attempts are left out.                                   *)
(*                                                                         *)
(* A definition named D_Something is D with a bug, as in Exporter.         *)
(***************************************************************************)
EXTENDS Integers, Sequences

CONSTANTS MaxPages,      \* bound: the pages of the longest answer
                         \* (the code has none: that skip tokens come
                         \* to an end is left to Azure)
          MaxRetries     \* arg_max_retries

ASSUME QueryConstants ==
  /\ MaxPages \in Nat \ {0}
  /\ MaxRetries \in Nat

VARIABLES pages,         \* the pages of the answer, known to Resource Graph;
                         \* the code bounds them nowhere and takes it on trust
                         \* that some page has no skip token
          page,          \* the page that skip_token asks for
          allRows,       \* the pages in all_rows, in order
          attempt,       \* failed attempts at this page
          query          \* where the query is

queryVars == <<pages, page, allRows, attempt, query>>

QueryInit ==
  /\ pages \in 1..MaxPages
  /\ page = 1
  /\ allRows = <<>>
  /\ attempt = 0
  /\ query = "running"

\* The rows are kept, and the skip token leads on or there is none.
PageArrives ==
  /\ query = "running"
  /\ allRows' = Append(allRows, page)
  /\ attempt' = 0
  /\ \/ /\ page < pages
        /\ page' = page + 1
        /\ UNCHANGED query
     \/ /\ page = pages
        /\ query' = "normalizing"
        /\ UNCHANGED page
  /\ UNCHANGED pages

\* A retry forgets the skip token.
Retry_FromTheFirstPage ==
  /\ query = "running"
  /\ attempt < MaxRetries
  /\ attempt' = attempt + 1
  /\ page' = 1
  /\ UNCHANGED <<pages, allRows, query>>

\* A retry asks for what follows the page it did not get.
Retry_NextPage ==
  /\ query = "running"
  /\ attempt < MaxRetries
  /\ attempt' = attempt + 1
  /\ page' = IF page < pages THEN page + 1 ELSE page
  /\ UNCHANGED <<pages, allRows, query>>

\* One retry too many.
Retry_OneMore ==
  /\ query = "running"
  /\ attempt <= MaxRetries
  /\ attempt' = attempt + 1
  /\ UNCHANGED <<pages, page, allRows, query>>

\* A failure worth a retry, within the budget: the same request once more.
Retry ==
  /\ query = "running"
  /\ attempt < MaxRetries
  /\ attempt' = attempt + 1
  /\ UNCHANGED <<pages, page, allRows, query>>

\* A failure beyond the budget or not worth a retry, an answer that is not a
\* list, or at last a row that cannot be normalized: what was gathered is lost.
QueryRaises ==
  /\ query \in {"running", "normalizing"}
  /\ query' = "raised"
  /\ UNCHANGED <<pages, page, allRows, attempt>>

RowsNormalized ==
  /\ query = "normalizing"
  /\ query' = "returned"
  /\ UNCHANGED <<pages, page, allRows, attempt>>

QueryNext == PageArrives \/ Retry \/ QueryRaises \/ RowsNormalized

-----------------------------------------------------------------------------

QueryTypeOK ==
  /\ pages \in 1..MaxPages
  /\ page \in 1..pages
  /\ allRows \in Seq(1..pages)
  /\ attempt \in 0..MaxRetries
  /\ query \in {"running", "normalizing", "returned", "raised"}

\* "Return normalized VMSS counts for all configured subscriptions": a query
\* that returns has every page once and in order, wherever the retries fell.
EveryPageOnce ==
  query = "returned" => allRows = [i \in 1..pages |-> i]
=============================================================================
