------------------------------- MODULE MCFeed -------------------------------
(* Instances of Feed for TLC. *)
EXTENDS Feed

\* Two plain orders around one of each other kind.
MCEvents == <<"order", "malformed", "payload", "small", "order", "foreign">>

\* A failure record with bad data between two good ones.
MCRecords == <<"order", "malformed", "order">>
=============================================================================
