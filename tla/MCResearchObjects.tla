------------------------- MODULE MCResearchObjects -------------------------
(***************************************************************************)
(* Two repositories for ResearchObjects: one of Sources, Events, a Thesis  *)
(* and Reports, and one of Forecasts, Valuations and Recommendations.      *)
(***************************************************************************)
EXTENDS ResearchObjects, TLC

CONSTANTS w1, w2, c1   \* two browser sessions and a command line

MCWeb == {w1}
MCSessions == {w1, c1}
MCEditions == {"v1", "v2"}

Obj(status, review) == [Blank EXCEPT !.status = status, !.review = review]

MCTypes == {"source", "event", "thesis", "report", "assertion", "run", "company", "sector",
            "forecast", "resolution", "valuation", "recommendation", "review", "action"}

(* Evidence: two Events, a Thesis on one and Reports on the other. *)
EvFiles == {"src1", "ev1", "ev2", "ths1", "rpt1", "rpt2", "rpt3", "rpt4",
            "rev1", "rev2", "rev3"}
EvTypeOf == [src1 |-> "source", ev1 |-> "event", ev2 |-> "event", ths1 |-> "thesis",
             rpt1 |-> "report", rpt2 |-> "report", rpt3 |-> "report", rpt4 |-> "report",
             rev1 |-> "review", rev2 |-> "review", rev3 |-> "review"]
EvBatches == {{f} : f \in EvFiles} \cup {{"rpt2", "rpt3"}, {"ev2", "ths1"}, {"ev1", "ev2"}}
EvIdOf == [f \in EvFiles |-> f]
EvSeries == [f \in EvFiles |->
  CASE f \in {"rev1", "rev2"} -> "day1" [] f = "rev3" -> "day2"
    [] f \in {"ev1", "ev2"} -> "event" [] OTHER -> f]
EvNumber == [f \in EvFiles |-> IF f \in {"ev2", "rev2"} THEN 2 ELSE 1]
EvSeed ==
  [f \in EvFiles |->
     CASE f = "src1" -> [Obj("processed", "pending") EXCEPT !.ready = TRUE]
       [] f = "ev1" -> [Obj("active", "reviewed") EXCEPT !.basis = {"src1"}]
       [] f = "ev2" -> [Obj("active", "pending") EXCEPT !.basis = {"src1"}]
       [] f = "ths1" -> [Obj("active", "pending") EXCEPT !.basis = {"ev2"}, !.ready = TRUE]
       [] f = "rpt1" -> [Obj("final", "reviewed") EXCEPT !.basis = {"ev1"}]
       [] f = "rpt2" -> [Obj("draft", "pending") EXCEPT !.basis = {"ev1"}, !.supersedes = "rpt1",
                                                        !.print = <<{"ev1"}, "v1">>]
       [] f = "rpt3" -> [Obj("draft", "pending") EXCEPT !.basis = {"ev1"}, !.supersedes = "rpt1",
                                                        !.print = <<{"ev1"}, "v2">>]
       [] OTHER -> Absent]

(* Decisions: the Resolutions 1a and 1b have the same number and differ in date,
   the Sources 2a and 2b differ in slug and share an id. *)
DcFiles == {"src1", "src2a", "src2b", "ev1", "fct1", "fct2", "fct3", "res1a", "res1b", "res2", "val1", "val2", "val3",
            "rec1", "rec2", "rec3", "rec4", "asr1", "run1", "act1", "com1", "rev1"}
DcTypeOf == [src1 |-> "source", src2a |-> "source", src2b |-> "source", ev1 |-> "event",
             fct1 |-> "forecast", fct2 |-> "forecast", fct3 |-> "forecast",
             res1a |-> "resolution", res1b |-> "resolution", res2 |-> "resolution",
             val1 |-> "valuation", val2 |-> "valuation", val3 |-> "valuation",
             rec1 |-> "recommendation", rec2 |-> "recommendation", rec3 |-> "recommendation",
             rec4 |-> "recommendation",
             asr1 |-> "assertion", run1 |-> "run", act1 |-> "action", com1 |-> "company",
             rev1 |-> "review"]
DcIdOf == [f \in DcFiles |-> IF f \in {"src2a", "src2b"} THEN "src2" ELSE f]
DcIds == DcFiles \cup {"src2"} \cup {"seg"}
DcBatches == {{f} : f \in DcFiles}
DcSeries == [f \in DcFiles |-> IF DcTypeOf[f] = "review" THEN f ELSE DcTypeOf[f]]
DcNumber == [f \in DcFiles |->
  CASE f \in {"src2a", "src2b", "fct2", "res2", "val2", "rec2"} -> 2 [] f \in {"fct3", "val3", "rec3"} -> 3 [] f = "rec4" -> 4 [] OTHER -> 1]
DcSeed ==
  [f \in DcFiles |->
     CASE f = "src1" -> Obj("processed", "reviewed")
       [] f \in {"fct2", "rec3"} -> Obj("draft", "reviewed")
       [] f = "fct1" -> Obj("open", "reviewed")
       [] f \in {"val1", "val2"} -> [Obj("draft", "pending") EXCEPT !.basis = {"src1"}, !.ready = TRUE]
       [] f \in {"rec1", "rec2"} -> [Obj("active", "reviewed") EXCEPT !.subject = "val1"]
       [] OTHER -> Absent]
=============================================================================
