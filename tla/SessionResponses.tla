--------------------------- MODULE SessionResponses ---------------------------
(***************************************************************************)
(* What the evaluation endpoint answers for a session:                     *)
(* numforge_handle_evaluation_impl of src/apps/web/server/web_server.c     *)
(* composed with Session.  The handler evaluates under an exclusive lease, *)
(* sends the text of the result and, for a complex value, a copy of its    *)
(* components; it takes the copy from the session, after the call, from    *)
(* the place where it expects the value to be.  Every value is taken to be *)
(* complex.                                                                *)
(***************************************************************************)
EXTENDS Session

VARIABLE
  response  \* the latest answer with a result, or None

responseVars == <<vars, response>>

InitResponses == Init /\ response = None

-----------------------------------------------------------------------------
(* The value the handler reads: the answer for a confirmation, and for a
   preview the stored one if it has the text of the request. *)
OutputValue(commit, in) ==
  IF ~commit /\ SamePreview(in) THEN preview.value ELSE Answer.value

Respond(op, in, ctx, value) ==
  response' = [op |-> op, input |-> in, context |-> ctx, result |-> value,
               copy |-> OutputValue(op # "preview", in)']

AnswerPreview(r, in, ctx, seed) ==
  /\ ShowCached(r, in, ctx, seed) \/ Preview(r, in, ctx, seed)
  /\ Respond("preview", in, ctx, Computed(in, ctx, seed))

AnswerConfirmation(r, in, ctx, seed) ==
  /\ Confirm(r, in, ctx, seed)
  /\ Respond("confirm", in, ctx, Computed(in, ctx, seed))

(* A repeated confirmation changes nothing and is answered again. *)
AnswerReplay(r, in, ctx) ==
  /\ IsReplay(r, in, ctx)
  /\ UNCHANGED vars
  /\ Respond("replay", in, ctx, Last(history).value)

NextResponses ==
  \/ \E r \in Revisions, in \in Inputs, ctx \in Contexts :
       \/ \E seed \in Seeds :
            \/ AnswerPreview(r, in, ctx, seed)
            \/ AnswerConfirmation(r, in, ctx, seed)
       \/ AnswerReplay(r, in, ctx)
  \/ (Failures \/ Mutations \/ Conversions) /\ response' = None

SpecResponses == InitResponses /\ [][NextResponses]_responseVars

-----------------------------------------------------------------------------
(* Every preview and every confirmation is answered with the value its input
   has in the state it was asked in, under the settings of the request: what
   was cached under other settings, before another answer, another variable
   or another draw is never shown.  A confirmation also continues the random
   stream where that value ends and stores that value in its variable, even
   if it was taken from the preview (session.c:315-322 and 396-404). *)
ShowsCurrentValue ==
  [][/\ response' # None
     /\ response'.op # "replay"
     /\ seeded
     => LET in == response'.input
        IN /\ response'.result = Value(in, response'.context, random)
           /\ response'.op = "confirm" =>
                /\ random' = Advanced(in, random)
                /\ in.assigns # NoName =>
                     variables'[in.assigns].value = response'.result]_responseVars

(* The copy that accompanies any result is a constructor of that same value
   (docs/reference/HTTP_API.md:24-25). *)
CopyIsResult == response # None => response.copy = response.result
===============================================================================
