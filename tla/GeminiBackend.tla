----------------------------- MODULE GeminiBackend -----------------------------
(***************************************************************************)
(* One model call of V1 (archimedes_v0/v1_gemini_backend.py): one POST,    *)
(* whose response passes every check and leaves one usage record, or fails *)
(* one and raises V1ProviderError.  Nothing is retried.                    *)
(***************************************************************************)
EXTENDS Integers, Sequences

CONSTANTS
  Tokens,   \* total_tokens a response may report, None if it reports no integer
  None

\* What a response can fail on, in the order in which it is looked at.
TransportFaults == {"transport", "http_status"}
EnvelopeFaults == {"not_json", "not_an_object", "not_completed", "other_model"}
ContentFaults == {"malformed_steps", "no_model_text", "text_not_json", "output_not_an_object"}
Faults == TransportFaults \cup EnvelopeFaults \cup ContentFaults \cup {"invalid_interaction_id"}

\* A null interaction id passes: every request is sent with store=false.
Responses == [fault : Faults \cup {None}, total_tokens : Tokens]

\* invoke raises.
Raises(response) == response.fault # None

\* The usage records after invoke: the record is appended last.
Invoke(records, response) ==
  IF Raises(response) THEN records ELSE Append(records, response.total_tokens)

===============================================================================
