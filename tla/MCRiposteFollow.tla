---------------------------- MODULE MCRiposteFollow ----------------------------
(* RiposteFollow with one journal, or the two journals of RIPOSTE.          *)
EXTENDS RiposteFollow

MCJournals == <<"waf", "security">>
MCOneJournal == <<"waf">>
MCInode == {1, 2}

\* Bound: the journals grow beyond MCShort lines only in the behaviours without a
\* failure, a death or a replacement (those with rotations alone).
MCShort == 3

LongIsQuiet ==
    written > MCShort =>
        /\ failures = 0 /\ crashes = 0
        /\ \A j \in Journal : inode[j] = CHOOSE n \in Inode : TRUE

\* FairSpec within that bound, which only restrains the environment and deaths.
MCNext == Next /\ LongIsQuiet'
MCFairSpec == Init /\ [][MCNext]_vars /\ WF_vars(Start) /\ WF_vars(Turn) /\ SF_vars(BeginTurn)
=============================================================================
