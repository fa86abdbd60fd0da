--------------------------- MODULE MCDerivations ---------------------------
(* Instances of Derivations for TLC. *)
EXTENDS Derivations

Container == {"derivations"}
WithOneshot == {"derivations", "oneshot"}
Oneshot == {"oneshot"}
OneMonth == <<"jan">>
Farm == <<"farm">>
FarmFirst == {"farm"}

=============================================================================
