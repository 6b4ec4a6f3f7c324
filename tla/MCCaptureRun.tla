------------------------------ MODULE MCCaptureRun ------------------------------
(* CaptureRun with the pages a shop's site answers with. *)
EXTENDS CaptureRun

Plain == [at |-> "other", title |-> "none", form |-> FALSE, challenge |-> FALSE,
          gate |-> FALSE, control |-> FALSE]
Product == [Plain EXCEPT !.title = "dom"]
Home == [Plain EXCEPT !.at = "home"]
ContinueGate == [Plain EXCEPT !.gate = TRUE, !.control = TRUE]
TitledGate == [ContinueGate EXCEPT !.title = "metadata"]
FormGate == [ContinueGate EXCEPT !.form = TRUE]
QuietForm == [Plain EXCEPT !.form = TRUE, !.control = TRUE]
Captcha == [FormGate EXCEPT !.challenge = TRUE]
TitledCaptcha == [Captcha EXCEPT !.title = "metadata"]

MCPages == {Product, Home, TitledGate, ContinueGate, FormGate, QuietForm, Captcha, TitledCaptcha}
=============================================================================
