----------------------------- MODULE MCYaGetopt -----------------------------
(***************************************************************************)
(* Small command lines for TLC: operands, options alone, together, with    *)
(* their argument behind them or as the next word, "--", "-" and one       *)
(* nobody knows.                                                           *)
(***************************************************************************)
EXTENDS YaGetopt

MCWords ==
  {<<"a">>, <<"b">>, <<"-", "k">>, <<"-", "t">>, <<"-", "k", "t">>,
   <<"-", "t", "k">>, <<"-", "-">>, <<"-">>, <<"-", "k", "h">>}
MCFlags == {"k"}
MCValued == {"t"}
=============================================================================
