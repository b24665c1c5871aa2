------------------------ MODULE MCInstancePublisher ------------------------
(* Instances of InstancePublisher for TLC. *)
EXTENDS InstancePublisher

CONSTANTS a, b

Chain == <<a, b>>

=============================================================================
