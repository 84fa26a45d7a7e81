------------------------------ MODULE PRReview ------------------------------
(***************************************************************************)
(* Cross-model reviews of pull requests (internal/temporal/                *)
(* workflow_pr_review.go, pr_activities.go): every five minutes a poller   *)
(* lists the open ones that carry no review comment and starts a review    *)
(* for each; sharks and `chum review' start reviews as well.  A review     *)
(* that fails ends like one that succeeds, only without its comment, which *)
(* is all that anyone reads later.                                         *)
(***************************************************************************)
EXTENDS Integers, FiniteSets

CONSTANTS
    PRs,         \* pull requests, by number: later ones have higher numbers
    PageLimit,   \* how many of them a scan lists (20)
    MaxReviews   \* bound: reviews of one pull request at a time; one takes
                 \* 10 minutes at most, so that two polls and a shark are 3

VARIABLES
    pr,        \* "none", "open" or "closed"
    reviewed,  \* pull requests with a comment "Cross-Model PR Review"
    reviews,   \* running PRReviewWorkflows per pull request
    found,     \* what the poller has still to start reviews for
    polling    \* is a PRReviewPollerWorkflow running (overlap: skip)

reviewVars == <<pr, reviewed, reviews, found, polling>>

ASSUME ReviewAssumption ==
    PRs \subseteq Nat /\ PageLimit \in Nat \ {0} /\ MaxReviews \in Nat \ {0}

ReviewInit ==
    /\ pr = [p \in PRs |-> "none"]
    /\ reviewed = {}
    /\ reviews = [p \in PRs |-> 0]
    /\ found = {}
    /\ polling = FALSE

open == {p \in PRs : pr[p] = "open"}

(* Workflow ids end in the task, the time or "manual" and the time, so     *)
(* that no start is refused for another review of the same pull request.   *)
start(p) ==
    /\ reviews[p] < MaxReviews
    /\ reviews' = [reviews EXCEPT ![p] = @ + 1]

----------------------------------------------------------------------------
(* GitHub and the people who use it.                                       *)

(* A shark opens a pull request and has it reviewed, a person only opens.  *)
OpenPR(p) ==
    /\ pr[p] = "none" /\ \A q \in PRs : q < p => pr[q] # "none"
    /\ pr' = [pr EXCEPT ![p] = "open"]
    /\ start(p) \/ UNCHANGED reviews
    /\ UNCHANGED <<reviewed, found, polling>>

(* It is merged or closed; the cleanup of a shark's worktree deletes the   *)
(* branch, which closes it too.                                            *)
ClosePR(p) ==
    /\ p \in open
    /\ pr' = [pr EXCEPT ![p] = "closed"]
    /\ UNCHANGED <<reviewed, reviews, found, polling>>

(* `chum review': the number is not looked up.                             *)
ManualReview(p) ==
    /\ p \in open /\ start(p)
    /\ UNCHANGED <<pr, reviewed, found, polling>>

----------------------------------------------------------------------------
(* The poller.                                                             *)

(* gh pr list --limit: the newest of the open ones.                        *)
page == {p \in open : Cardinality({q \in open : q > p}) < PageLimit}

(* Mutant of unreviewed: the signature is not looked for.                  *)
unreviewedOrNot == page

unreviewed == page \ reviewed

(* ScanOpenPRsActivity: pull requests whose comments cannot be read are    *)
(* left out, a failing list ends the poll.                                 *)
ScanOpenPRs ==
    /\ ~polling
    /\ \E S \in SUBSET unreviewed : found' = S /\ polling' = (S # {})
    /\ UNCHANGED <<pr, reviewed, reviews>>

(* The loop of PRReviewPollerWorkflow; a start that fails is skipped.      *)
SpawnReview(p) ==
    /\ p \in found
    /\ found' = found \ {p} /\ polling' = (found' # {})
    /\ start(p) \/ UNCHANGED reviews
    /\ UNCHANGED <<pr, reviewed>>

(* ReviewPRActivity reaches its end and posts the comment.                 *)
ReviewPosted(p) ==
    /\ reviews[p] > 0
    /\ reviews' = [reviews EXCEPT ![p] = @ - 1]
    /\ reviewed' = reviewed \cup {p}
    /\ UNCHANGED <<pr, found, polling>>

(* Metadata, diff, agent or comment fail: no error, no comment.            *)
ReviewFails(p) ==
    /\ reviews[p] > 0
    /\ reviews' = [reviews EXCEPT ![p] = @ - 1]
    /\ UNCHANGED <<pr, reviewed, found, polling>>

ReviewNext ==
    \/ \E p \in PRs : \/ OpenPR(p) \/ ClosePR(p) \/ ManualReview(p)
                      \/ SpawnReview(p) \/ ReviewPosted(p) \/ ReviewFails(p)
    \/ ScanOpenPRs

----------------------------------------------------------------------------
(* Properties.                                                             *)

(* Reviews settle: every pull request that a scan lists comes to carry a   *)
(* review, however often reviews fail without a word (ReviewPRActivity     *)
(* returns no error), and the poller then starts no more of them.          *)
ReviewsSettle == <>[](page \subseteq reviewed /\ found = {})

=============================================================================
