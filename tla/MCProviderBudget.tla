--------------------------- MODULE MCProviderBudget ---------------------------
(***************************************************************************)
(* Small accounts: of an extraction, which may make two responses whose     *)
(* reservations do not fit side by side but whose usage may; of a           *)
(* transcription that runs out of audio first, or of requests; and of a job *)
(* from before there were accounts.                                         *)
(***************************************************************************)
EXTENDS ProviderBudget, TLC

Limits(preflight, provider, input, output, audio) ==
  [d \in Dimensions |->
     CASE d = "preflight" -> preflight [] d = "provider" -> provider
       [] d = "input" -> input [] d = "output" -> output [] d = "audio" -> audio]

MCAccounts ==
  {[stage |-> "extraction", locked |-> FALSE, limits |-> Limits(2, 2, 3, 3, Unlimited)],
   [stage |-> "transcription", locked |-> FALSE,
    limits |-> Limits(Unlimited, 2, Unlimited, Unlimited, 3)],
   [stage |-> "transcription", locked |-> FALSE,
    limits |-> Limits(Unlimited, 2, Unlimited, Unlimited, 9)],
   [stage |-> "extraction", locked |-> TRUE, limits |-> [d \in Dimensions |-> 0]]}

Symmetric == Permutations(Workers) \cup Permutations(Keys)
=============================================================================
