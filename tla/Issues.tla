------------------------------- MODULE Issues --------------------------------
(* The issues of a project with their comments, and its design portfolio, of *)
(* whose elements a review makes issues (issue_api.go, portfolio_api.go,     *)
(* postgres.go, pg/issues.go, pg/portfolios.go).  A number comes from a      *)
(* counter that starts behind the rows there are; creating an issue,         *)
(* archiving it, changing a comment and patching an element are two          *)
(* statements each, and requests run beside each other.                      *)
EXTENDS Naturals, Sequences, FiniteSets, FiniteSetsExt

CONSTANTS Requesters,    \* the requests that may be on the way at a time
          Authors,
          MaxIssues,     \* numbers the counter gives
          MaxComments,
          RouteOf,       \* the route of each element of the portfolio
          RefOf          \* its reference, a slug that others may have too

ASSUME PortfolioAssumption == DOMAIN RefOf = DOMAIN RouteOf

VARIABLES issues,        \* the rows, by number: state and archived_at
          counter,       \* next_number of the project, 0 while it has no row
          comments,      \* the rows, by id: issue, author, edited
          elements,      \* the portfolio's rows, the last updated first: id and status
          request,       \* what each request does next
          refused        \* ghost: an allocated number was taken already

issueVars == <<issues, counter, comments, elements, request, refused>>

Free == [pc |-> "idle"]
Doing(w, pc) == request[w].pc = pc
Then(w, r) == request' = [request EXCEPT ![w] = r]
With(f, k, v) == [x \in DOMAIN f \cup {k} |-> IF x = k THEN v ELSE f[x]]
OpenIssue == [state |-> "open", archived |-> FALSE]
Highest == Max(DOMAIN issues \cup {0})

\* Mutant: the number comes from the rows each time.
AllocateFromRows(w) ==
  /\ Doing(w, "idle") \/ Doing(w, "review")
  /\ counter <= MaxIssues
  /\ Then(w, [pc |-> "insert", number |-> Highest + 1])
  /\ counter' = counter + 1
  /\ UNCHANGED <<issues, comments, refused>>

\* AllocateNextNumber, for a request to create an issue or for the review of a portfolio:
\* one transaction seeds the counter and takes from it.
AllocateNumber(w) ==
  /\ Doing(w, "idle") \/ Doing(w, "review")
  /\ counter <= MaxIssues
  /\ LET next == IF counter = 0 THEN Highest + 1 ELSE counter IN
     counter' = next + 1 /\ Then(w, [pc |-> "insert", number |-> next])
  /\ UNCHANGED <<issues, comments, refused>>

\* Create: a conflict fails the request.
InsertIssue(w) ==
  /\ Doing(w, "insert")
  /\ LET n == request[w].number IN
     IF n \in DOMAIN issues THEN refused' = TRUE /\ UNCHANGED issues
     ELSE issues' = With(issues, n, OpenIssue) /\ UNCHANGED refused
  /\ Then(w, Free)
  /\ UNCHANGED <<counter, comments>>

\* Closing and opening set state, closed_at and with it archived_at.
Close(i) == IF i.state = "open" THEN [state |-> "closed", archived |-> TRUE] ELSE i
Reopen(i) == OpenIssue

PatchState(n, issue) == issues' = [issues EXCEPT ![n] = issue]

\* PatchIssueByNumber, an unknown number is not found.
PatchIssue(w) ==
  /\ Doing(w, "idle")
  /\ \E n \in DOMAIN issues : PatchState(n, Close(issues[n])) \/ PatchState(n, Reopen(issues[n]))
  /\ UNCHANGED <<counter, comments, request, refused>>

\* A comment's id is minted: the next that was never used.
Minted == Max(DOMAIN comments \cup {0}) + 1
Written(n, a) == [issue |-> n, author |-> a, there |-> TRUE, edited |-> FALSE]
Comment(n, a) == Minted <= MaxComments /\ comments' = With(comments, Minted, Written(n, a))

\* ArchiveIssueByNumber writes the note first, for whatever number it is given.
ArchiveNote(w) ==
  /\ Doing(w, "idle")
  /\ \E n \in 1 .. MaxIssues, a \in Authors :
       Comment(n, a) /\ Then(w, [pc |-> "archive", number |-> n])
  /\ UNCHANGED <<issues, counter, refused>>

ArchiveIssue(w) ==
  /\ Doing(w, "archive")
  /\ LET n == request[w].number IN
     IF n \in DOMAIN issues THEN PatchState(n, Close(issues[n])) ELSE UNCHANGED issues
  /\ Then(w, Free)
  /\ UNCHANGED <<counter, comments, refused>>

\* AddIssueComment: the issue is looked up, and no issue is ever deleted.
AddComment(w) ==
  /\ Doing(w, "idle")
  /\ \E n \in DOMAIN issues, a \in Authors : Comment(n, a)
  /\ UNCHANGED <<issues, counter, request, refused>>

\* UpdateIssueComment and DeleteIssueComment read the comment first: it has to
\* be of the issue, and an edit of its author.
MayEdit(a, id) == comments[id].author = a
Stored == {id \in DOMAIN comments : comments[id].there}
LookUpComment(w) ==
  /\ Doing(w, "idle")
  /\ \E id \in Stored :
       \/ \E a \in Authors :
            MayEdit(a, id) /\ Then(w, [pc |-> "edit", id |-> id, author |-> a])
       \/ Then(w, [pc |-> "delete", id |-> id])
  /\ UNCHANGED <<issues, counter, comments, refused>>

EditComment(w) ==
  /\ Doing(w, "edit")
  /\ LET id == request[w].id IN
     comments' = IF id \in Stored THEN [comments EXCEPT ![id].edited = TRUE] ELSE comments
  /\ Then(w, Free)
  /\ UNCHANGED <<issues, counter, refused>>

DeleteComment(w) ==
  /\ Doing(w, "delete")
  /\ comments' = [comments EXCEPT ![request[w].id].there = FALSE]
  /\ Then(w, Free)
  /\ UNCHANGED <<issues, counter, refused>>

\* A request may be cut off between its two statements.
CutOff(w) ==
  /\ ~Doing(w, "idle") /\ Then(w, Free)
  /\ UNCHANGED <<issues, counter, comments, refused>>
-----------------------------------------------------------------------------
\* The portfolio.  An element is written whole or patched, and never deleted.

Elements == DOMAIN RouteOf
ReviewStatuses == {"needs_review", "approved"}    \* of the four that dispatch accepts

\* PortfoliosStore.Upsert and PatchPayload: the row becomes the last updated.
Updated(e, status) == <<[id |-> e, status |-> status]>> \o SelectSeq(elements, LAMBDA row : row.id # e)

\* PortfoliosStore.List: the limit counts the rows of the status.
Listed(status, limit) ==
  LET rows == SelectSeq(elements, LAMBDA row : row.status = status)
  IN  SubSeq(rows, 1, IF limit < Len(rows) THEN limit ELSE Len(rows))

UpsertElement(w) ==
  /\ Doing(w, "idle")
  /\ \E e \in Elements, status \in ReviewStatuses : elements' = Updated(e, status)
  /\ UNCHANGED request

\* PatchPortfolioElement scans the rows for the reference and takes the first that has it ...
FirstWith(ref, k) == RefOf[elements[k].id] = ref /\ \A l \in 1 .. (k - 1) : RefOf[elements[l].id] # ref
FindElement(w) ==
  /\ Doing(w, "idle")
  /\ \E k \in DOMAIN elements : /\ FirstWith(RefOf[elements[k].id], k)
                                /\ Then(w, [pc |-> "element", id |-> elements[k].id])
  /\ UNCHANGED elements

\* ... and changes the row it named, by then perhaps another.
PatchElement(w) ==
  /\ Doing(w, "element")
  /\ \E status \in ReviewStatuses : elements' = Updated(request[w].id, status)
  /\ Then(w, Free)

\* dispatchPortfolioElements: the route is filtered behind the limit; with a row left an
\* issue is created, and a run of it dispatched.
ListForReview(w) ==
  /\ Doing(w, "idle")
  /\ \E status \in ReviewStatuses, limit \in 1 .. Cardinality(Elements), e \in Elements :
       LET rows == Listed(status, limit) IN
       \E k \in DOMAIN rows : RouteOf[rows[k].id] = RouteOf[e]
  /\ Then(w, [pc |-> "review"])
  /\ UNCHANGED elements
-----------------------------------------------------------------------------
IssuesInit ==
  /\ \E n \in 0 .. 1 : issues = [k \in 1 .. n |-> OpenIssue]
  /\ counter = 0
  /\ comments = <<>>
  /\ elements = <<>>
  /\ request = [w \in Requesters |-> Free]
  /\ refused = FALSE

IssueRequest(w) ==
  \/ AllocateNumber(w) \/ InsertIssue(w) \/ PatchIssue(w)
  \/ ArchiveNote(w) \/ ArchiveIssue(w) \/ AddComment(w)
  \/ LookUpComment(w) \/ EditComment(w) \/ DeleteComment(w) \/ CutOff(w)
PortfolioRequest(w) ==
  UpsertElement(w) \/ FindElement(w) \/ PatchElement(w) \/ ListForReview(w)

IssuesNext ==
  \E w \in Requesters :
    \/ IssueRequest(w) /\ UNCHANGED elements
    \/ PortfolioRequest(w) /\ UNCHANGED <<issues, counter, comments, refused>>
-----------------------------------------------------------------------------
(* No creation is refused and no two have the same number, however requests  *)
(* meet and whichever is cut off between its statements: the counter, seeded *)
(* behind the rows that were there first, gives each number once             *)
(* (AllocateNextNumber, Create).                                             *)
NumbersAreApart ==
  /\ ~refused
  /\ \A v, w \in Requesters :
       v # w /\ Doing(v, "insert") /\ Doing(w, "insert")
         => request[v].number # request[w].number
=============================================================================
