------------------------------ MODULE Webhook ------------------------------
(***************************************************************************)
(* Webhook deliveries (internal/webhook/webhook.go): a verification is     *)
(* posted to the application by a goroutine of its own, at most            *)
(* MaxAttempts times, until one post is answered with a status below 300.  *)
(* The post, or only its answer, may be lost.                              *)
(***************************************************************************)
EXTENDS Integers

CONSTANTS
  Sessions, Numbers, None,
  WebhookURL,      \* App.WebhookURL is set
  MaxAttempts      \* 3 in the code; at least 1

VARIABLES
  delivery,   \* per session: the goroutine's state, its attempt, the number in its payload
  heard       \* per session: the numbers of the posts that reached the application, and how many

webhookVars == <<delivery, heard>>

NotFired == [st |-> "none", attempt |-> 0, number |-> None]

WebhookTypeOK ==
  /\ delivery \in [Sessions -> [st : {"none", "trying", "delivered", "gave up", "died"},
                                attempt : Nat,
                                number : Numbers \cup {None}]]
  /\ heard \in [Sessions -> [numbers : SUBSET Numbers, posts : Nat]]

WebhookInit ==
  /\ delivery = [s \in Sessions |-> NotFired]
  /\ heard = [s \in Sessions |-> [numbers |-> {}, posts |-> 0]]

\* VerificationVerified: without a URL nothing is sent.
Fire(s, number) ==
  /\ delivery' = IF WebhookURL
                 THEN [delivery EXCEPT ![s] = [st |-> "trying", attempt |-> 1, number |-> number]]
                 ELSE delivery
  /\ UNCHANGED heard

Hear(s) == heard' = [heard EXCEPT ![s] = [numbers |-> @.numbers \cup {delivery[s].number},
                                          posts |-> @.posts + 1]]

\* deliver: one post answered below 300 ends it.
Delivered(s) ==
  /\ delivery[s].st = "trying"
  /\ Hear(s)
  /\ delivery' = [delivery EXCEPT ![s].st = "delivered"]

\* Mutated: one attempt more.
AfterFailureOnceMore(d) ==
  IF d.attempt <= MaxAttempts THEN [d EXCEPT !.attempt = @ + 1] ELSE [d EXCEPT !.st = "gave up"]

\* The next attempt after the pause, or none.
AfterFailure(d) ==
  IF d.attempt < MaxAttempts THEN [d EXCEPT !.attempt = @ + 1] ELSE [d EXCEPT !.st = "gave up"]

\* deliver: an error or another status, whether the application processed the post or not.
Failed(s) ==
  /\ delivery[s].st = "trying"
  /\ Hear(s) \/ UNCHANGED heard
  /\ delivery' = [delivery EXCEPT ![s] = AfterFailure(@)]

\* The coordinator dies, and every goroutine with it; nothing restarts a delivery.
SenderDies ==
  /\ delivery' = [s \in Sessions |-> IF delivery[s].st = "trying"
                                     THEN [delivery[s] EXCEPT !.st = "died"] ELSE delivery[s]]
  /\ UNCHANGED heard
=============================================================================
