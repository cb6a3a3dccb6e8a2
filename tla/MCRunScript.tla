----------------------------- MODULE MCRunScript -----------------------------
(*****************************************************************************)
(* An instance of RunScript: a gateway that times out, a web page, a         *)
(* refusal and a session that is gone.                                       *)
(*****************************************************************************)
EXTENDS RunScript

MCAnswers == {[status |-> 504, page |-> TRUE, gone |-> FALSE],
              [status |-> 200, page |-> TRUE, gone |-> FALSE],
              [status |-> 400, page |-> FALSE, gone |-> FALSE],
              [status |-> 404, page |-> FALSE, gone |-> TRUE]}
===============================================================================
