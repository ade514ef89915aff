------------------------------- MODULE Feedback ------------------------------
(***************************************************************************)
(* "Report a problem": the widget in the tabs of one person                *)
(* (feedback-widget), the route (routes/feedback) with its cooldown in     *)
(* Redis, and the GitHub call that files the issue, which may file it and  *)
(* still be reported as failed (services/feedback-service).                *)
(***************************************************************************)
EXTENDS Platform, TLC

CONSTANT Widgets    \* the person's tabs

VARIABLES
    feedback,   \* the configuration, which is reloaded: whether it is set up, has a token
    limiter,    \* whether Redis answers
    cooldown,   \* whether the person's key is in Redis
    form,       \* per tab: whether the launcher is there, the dialog, and what is in it
    report,     \* per tab: the report in flight, or NULL
    issues      \* per life of that key, the present or coming one last: the issues filed
                \* by the reports that were let through in it

feedbackVars == <<feedback, limiter, cooldown, form, report, issues>>

ReportTexts == {"none", "fits", "too long"}
EmptyForm == [open |-> FALSE, text |-> "none"]

FeedbackInit ==
    /\ feedback = [on |-> TRUE, token |-> TRUE] /\ limiter = TRUE
    /\ cooldown = FALSE /\ issues = <<0>>
    /\ form = [w \in Widgets |-> [launcher |-> FALSE] @@ EmptyForm]
    /\ report = [w \in Widgets |-> NULL]

-----------------------------------------------------------------------------
Configure(f) ==
    /\ Op /\ f # feedback /\ feedback' = f
    /\ UNCHANGED <<limiter, cooldown, form, report, issues>>
LimiterTurns ==
    /\ Op /\ limiter' = ~limiter
    /\ UNCHANGED <<feedback, cooldown, form, report, issues>>

(* The key lives for 60 s.  Nothing gives up the request that asks GitHub  *)
(* who the token is, so a report may still be on its way then.             *)
KeyExpires ==
    /\ Op /\ cooldown /\ cooldown' = FALSE /\ issues' = Append(issues, 0)
    /\ UNCHANGED <<feedback, limiter, form, report>>

-----------------------------------------------------------------------------
(* The widget.                                                             *)
OnlyForm(w, f) ==
    /\ form' = [form EXCEPT ![w] = f @@ @]
    /\ UNCHANGED <<feedback, limiter, cooldown, issues>>

(* GET /config, asked again when the page is loaded or the answer is old.  *)
SeeLauncher(w) ==
    /\ NoOp /\ form[w].launcher # feedback.on
    /\ OnlyForm(w, [launcher |-> feedback.on]) /\ UNCHANGED report
OpenForm(w) ==
    /\ NoOp /\ form[w].launcher /\ ~form[w].open
    /\ OnlyForm(w, [open |-> TRUE]) /\ UNCHANGED report

(* The fields can be edited while a report is being sent.                  *)
Write(w, t) ==
    /\ NoOp /\ form[w].launcher /\ form[w].open /\ form[w].text # t
    /\ OnlyForm(w, [text |-> t]) /\ UNCHANGED report
CancelForm(w) ==
    /\ NoOp /\ form[w].open /\ report[w] = NULL
    /\ OnlyForm(w, EmptyForm) /\ UNCHANGED report
SendReport(w) ==
    /\ Op /\ form[w].launcher /\ form[w].open /\ form[w].text # "none" /\ report[w] = NULL
    /\ report' = [report EXCEPT ![w] = [text |-> form[w].text, at |-> "route", life |-> 0,
                                        answer |-> NULL]]
    /\ UNCHANGED <<feedback, limiter, cooldown, form, issues>>

Arrived(w, at) == NoOp /\ report[w] # NULL /\ report[w].at = at

(* A success empties the form and closes it; anything else leaves it.      *)
ReportAnswered(w) ==
    /\ Arrived(w, "answered") /\ report' = [report EXCEPT ![w] = NULL]
    /\ OnlyForm(w, IF report[w].answer = 200 THEN EmptyForm ELSE [launcher |-> form[w].launcher])

-----------------------------------------------------------------------------
(* The route: set up, valid, within the cooldown, and only then filed.     *)
Replies(w, status) == report' = [report EXCEPT ![w].answer = status, ![w].at = "answered"]
ReportGoes(w, to) == report' = [report EXCEPT ![w].at = to]

Rejected(w) ==
    /\ Arrived(w, "route")
    /\ ~feedback.on \/ report[w].text = "too long"
    /\ Replies(w, IF ~feedback.on THEN 503 ELSE 400)
    /\ UNCHANGED <<feedback, limiter, cooldown, form, issues>>

(* SET NX EX.                                                              *)
Limited(w) == Arrived(w, "route") /\ feedback.on /\ report[w].text # "too long"
CheckRateLimit(w) ==
    /\ Limited(w) /\ limiter /\ cooldown' = TRUE
    /\ IF cooldown THEN Replies(w, 429)
       ELSE report' = [report EXCEPT ![w].at = "allowed", ![w].life = Len(issues)]
    /\ UNCHANGED <<feedback, limiter, form, issues>>

(* Without an answer of Redis, which may have set the key, everybody is    *)
(* let through.                                                            *)
Unlimited(w) ==
    /\ Limited(w) /\ ~limiter /\ cooldown' \in {cooldown, TRUE}
    /\ ReportGoes(w, "allowed")
    /\ UNCHANGED <<feedback, limiter, form, issues>>

NotFiled(w) ==
    /\ Arrived(w, "allowed") /\ ~(feedback.on /\ feedback.token)
    /\ Replies(w, 503)
    /\ UNCHANGED <<feedback, limiter, cooldown, form, issues>>

(* The token is read once, and GitHub is asked whose it is.                *)
AskIdentity(w) ==
    /\ Arrived(w, "allowed") /\ feedback.on /\ feedback.token
    /\ ReportGoes(w, "authenticating")
    /\ UNCHANGED <<feedback, limiter, cooldown, form, issues>>

(* Faulty variant of AfterFailure: a report that failed costs no cooldown. *)
AfterFailureForgiven == FALSE

(* Whether the key is still there after a report that failed.              *)
AfterFailure == cooldown

IdentityRefused(w) ==
    /\ Arrived(w, "authenticating") /\ Replies(w, 502) /\ cooldown' = AfterFailure
    /\ UNCHANGED <<feedback, limiter, form, issues>>

(* GitHub files the issue or not; it answers in time or not, and an issue  *)
(* whose answer did not come is there all the same.                        *)
CreateReport(w) ==
    /\ Arrived(w, "authenticating")
    /\ \E filed, inTime \in BOOLEAN :
          /\ issues' = IF filed /\ report[w].life # 0
                       THEN [issues EXCEPT ![report[w].life] = @ + 1] ELSE issues
          /\ cooldown' = IF filed /\ inTime THEN cooldown ELSE AfterFailure
          /\ Replies(w, IF filed /\ inTime THEN 200 ELSE 502)
    /\ UNCHANGED <<feedback, limiter, form>>

FeedbackNext ==
    \/ \E f \in [on : BOOLEAN, token : BOOLEAN] : Configure(f)
    \/ LimiterTurns \/ KeyExpires
    \/ \E w \in Widgets :
          \/ SeeLauncher(w) \/ OpenForm(w) \/ CancelForm(w) \/ SendReport(w)
          \/ ReportAnswered(w) \/ Rejected(w) \/ CheckRateLimit(w) \/ Unlimited(w)
          \/ NotFiled(w) \/ AskIdentity(w) \/ IdentityRefused(w) \/ CreateReport(w)
    \/ \E w \in Widgets, t \in ReportTexts : Write(w, t)

-----------------------------------------------------------------------------
(* However many tabs a person reports from, and however often a report     *)
(* that failed is sent again, the reports let through in one life of the   *)
(* person's key file at most one issue: the retry of a create whose answer *)
(* was lost does not file the same problem twice.  (A report that is still *)
(* being authenticated when its key expires may file beside the one that   *)
(* the next key let through: what is limited is who is let through.)       *)
OneIssuePerCooldown == part = "feedback" => \A nth \in DOMAIN issues : issues[nth] <= 1
=============================================================================
