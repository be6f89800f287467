------------------------------ MODULE MCStore ------------------------------
(* Instances of Store for TLC. *)
EXTENDS Store

TheSlugs == 1..2

Plain == [tidy |-> TRUE, moderator |-> FALSE, terms |-> "none", images |-> {}]

\* A profile, one with a name too long, and what a moderator may set.
TheProfiles == {Plain, [Plain EXCEPT !.tidy = FALSE], [Plain EXCEPT !.terms = "fee"],
                [Plain EXCEPT !.moderator = TRUE], [Plain EXCEPT !.terms = "no fee"]}

\* With and without the second wallet, and servers of their own.
TheConfigs == {[coins |-> {"BTC", "BCH"}, servers |-> 1], [coins |-> {"BTC"}, servers |-> 2]}

OneConfig == {[coins |-> {"BTC"}, servers |-> 1]}
=============================================================================
