-------------------------------- MODULE MCHost --------------------------------
(* What the osk command does on the host: install it, start and stop the hub,  *)
(* and review what was found.  The three share no state that decides here;     *)
(* each is explored with the others at rest.                                   *)
EXTENDS MCHubLifecycle

CONSTANTS Phrases, MaxPairs                                    \* HostInstall
CONSTANTS Findings, Events, Sitreps, Categories, Limits,
          MaxLag, MaxTime, MaxWrites                           \* ReviewFeed

VARIABLES config, tools, key, cert, pairs, image, mapped, install, start, promised, cut, left
VARIABLES time, row, at, query, got, answer, writes, old, rivals
VARIABLE part

Install == INSTANCE HostInstall
Feed == INSTANCE ReviewFeed

ASSUME PartsAssumption == Install!InstallAssumption /\ Feed!FeedAssumption

installVars == <<config, tools, key, cert, pairs, image, mapped, install, start, promised, cut, left>>
feedVars == <<time, row, at, query, got, answer, writes, old, rivals>>

AllInit ==
    /\ Init /\ Install!Init /\ Feed!Init
    /\ part \in {"hub", "install", "feed"}
    /\ part # "install" => tools = {} /\ config = [luks |-> FALSE, whisper |-> FALSE, local |-> FALSE]

AllNext ==
    /\ part' = part
    /\ \/ part = "hub" /\ Next /\ UNCHANGED <<installVars, feedVars>>
       \/ part = "install" /\ Install!Next /\ UNCHANGED <<vars, feedVars>>
       \/ part = "feed" /\ Feed!Next /\ UNCHANGED <<vars, installVars>>

AllSpec == AllInit /\ [][AllNext]_<<vars, installVars, feedVars, part>>

-----------------------------------------------------------------------------
\* A host that the drill calls ready starts: see HostInstall.
ReadyStarts == Install!ReadyStarts

\* The feed leaves out nothing newer than what it shows: see ReviewFeed.
FeedShowsNewest == Feed!FeedShowsNewest
=============================================================================
