---------------------------- MODULE MCWizardJobs ----------------------------
(***************************************************************************)
(* WizardJobs on the screens that matter: two tabs on one upload, a page   *)
(* with both methodologies, two uploads, an import beside a job.           *)
(***************************************************************************)
EXTENDS Naturals

CONSTANTS Chunks, HeavyChunks, GiveUp, MaxFaults, MaxRemounts

VARIABLES open, jobs, deleted, page, chain, faults, remounts

Tab == [page |-> "a", upload |-> "u", kind |-> "protein_tracker"]
OtherTab == [Tab EXCEPT !.page = "b"]
Beside == [Tab EXCEPT !.kind = "wwf"]
Import == [page |-> "c", upload |-> "new", kind |-> "import"]
Alone == [page |-> "d", upload |-> "w", kind |-> "protein_tracker"]
Twice == [Alone EXCEPT !.page = "e"]
Cards == {Tab, OtherTab, Beside, Import, Alone, Twice}

\* The screens, each with the faults and remounts it can afford.  Alone is left
\* and entered again; Twice is pressed while an earlier chain of it goes on.
Screens ==
    {<<{Alone}, MaxFaults, MaxRemounts>>, <<{Twice}, 1, 0>>,
     <<{Tab, OtherTab}, 0, 0>>, <<{Tab, Beside}, 0, 0>>,
      <<{Tab, Import}, MaxFaults, 0>>}

W == INSTANCE WizardJobs WITH
        Card <- Cards,
        MaxChains <- [c \in Cards |-> IF c = Twice THEN 2 ELSE 1],
        MaxJobs <- [c \in Cards |-> IF c = Twice THEN 2 ELSE 1],
        Fallible <- {Import, Alone, Twice},
        Deletable <- {Alone.upload}

ASSUME InstanceIsMeant == W!ConstantsAssumption

Init ==
    /\ \E s \in Screens : open = s[1] /\ faults = s[2] /\ remounts = s[3]
    /\ W!Init

vars == <<open, jobs, deleted, page, chain, faults, remounts>>

\* Users press on, requests are served and time passes, as in WizardJobs.
Spec ==
    /\ Init /\ [][W!Next]_vars
    /\ \A c \in Cards :
        /\ WF_vars(W!PressOn(c)) /\ WF_vars(W!PickFile(c))
        /\ \A k \in W!Chains(c) : WF_vars(W!Serve(c, k))
    /\ WF_vars(\E j \in W!JobId : W!Age(j))

\* Whoever keeps pressing is shown the end of a job (WizardJobs).
UserGetsThrough == W!UserGetsThrough

\* No polling loop runs for ever (WizardJobs).
LoopsStop == W!LoopsStop

\* An import that was given up on can be resumed (WizardJobs).
ImportResumes == W!ImportResumes
=============================================================================
