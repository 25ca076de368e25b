------------------------- MODULE MCHttpConnection -------------------------
(* Up to three requests: with and without a body, wrong ones, last ones. *)
EXTENDS HttpConnection, TLC

Kind(type, len, keep) == [type |-> type, len |-> len, keep |-> keep, bad |-> FALSE]
Bad(type, keep) == [type |-> type, len |-> 0, keep |-> keep, bad |-> TRUE]

MCKinds ==
  {Kind("get", 0, TRUE), Kind("get", 0, FALSE), Bad("get", FALSE), Bad("multipart", TRUE),
   Kind("post", 2, FALSE), Kind("multipart", 2, TRUE), Kind("upgrade", 0, FALSE)}

(* Where the parser does not mind a cut. *)
MCCuts ==
  {<<"first", "eol">>, <<"eol", "header">>, <<"eol", "empty">>,
   <<"empty", "body">>, <<"empty", "boundary">>,
   <<"empty", "preamble">>, <<"preamble", "eol">>, <<"body", "body">>,
   <<"eol", "part">>, <<"part", "eol">>, <<"body", "eol">>}

(* The kinds and cuts of the README's table of what does not hold. *)
MCGets == {Kind("get", 0, TRUE)}
MCEmptyPost == {Kind("post", 0, TRUE)}
MCMisplaced == {Kind("misplaced", 0, FALSE)}
MCKeepUpgrade == {Kind("upgrade", 0, TRUE)}
MCMultipart == {Kind("multipart", 1, TRUE)}
MCHeaderCut == MCCuts \cup {<<"header", "eol">>}
MCAfterBoundary == MCCuts \cup {<<"boundary", "eol">>}
MCBeforeBoundary == MCCuts \cup {<<"eol", "boundary">>}
MCLastEnd == MCCuts \cup {<<"dashes", "eol">>}
=============================================================================
