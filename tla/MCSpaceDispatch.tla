--------------------------- MODULE MCSpaceDispatch ---------------------------
(* SpaceDispatch for TLC: three or four messages, in orders that matter.    *)
EXTENDS SpaceDispatch

MCArrivals ==
  { <<"ingest", "ingest", "ingest">>, <<"ingest", "ingest", "memory">>,
    <<"ingest", "memory", "note">>,   <<"ingest", "weak", "ingest">>,
    <<"slash", "ingest", "memory">>,  <<"slash", "sensitive", "note">>,
    <<"sensitive", "memory", "ingest">>,
    <<"ingest", "memory", "ingest", "note">> }
=============================================================================
