-------------------------------- MODULE Install -------------------------------
(***************************************************************************)
(* `ergane install` (factory/cli/install.py): the interview that writes    *)
(* the control plane's config, answered at a terminal, from a file of      *)
(* answers, or from the defaults.  Two may run at once: a lock is held     *)
(* from the reading of the config that is there to the end.                *)
(*                                                                         *)
(* A document is told by its modes, by whether an external Temporal has an *)
(* address, and by whether its optional fields are there; an answer by the *)
(* mode it names, or that it is some text, or that it is empty.            *)
(***************************************************************************)
EXTENDS Naturals, Sequences

CONSTANTS
    Installs,     \* the installs somebody starts
    None,         \* no document, nobody
    Torn          \* part of a document

VARIABLES
    config,       \* the config on disk: a document, None or Torn
    personas,     \* the persona registry on disk: "none", "shipped", "chosen"
    holder,       \* the install that holds the config's lock, or None
    install       \* each install

xvars == <<config, personas, holder, install>>

Document == [llm : {"gateway", "direct"}, gateway : {"external", "managed"},
             memory : {"none", "hindsight"}, temporal : {"external", "managed"}, address : BOOLEAN,
             otlp : BOOLEAN, adapter : {"telegram", "none"}, chat : BOOLEAN]
BLANK_DOCUMENT == [llm |-> "gateway", gateway |-> "external", memory |-> "none",
                   temporal |-> "external", address |-> TRUE, otlp |-> FALSE,
                   adapter |-> "telegram", chat |-> TRUE]

Questions == {"llm", "gateway", "base_url", "master_key", "api_key", "memory", "memory_url",
              "memory_key", "temporal", "address", "namespace", "temporal_key", "tls",
              "otlp", "adapter", "bot", "chat"}
Tokens == {"", "text", "gateway", "direct", "external", "managed", "hindsight", "none", "telegram"}
InstallOver == {"done", "refused", "asserted", "died"}
Installing == [by : {"nobody", "terminal", "file"},
               at : {"start", "lock", "read", "write", "personas"} \cup Questions \cup InstallOver,
               answers : Seq(Tokens), doc : Document, started : Document]

InstallTypeOK ==
    /\ config \in Document \cup {None, Torn} /\ personas \in {"none", "shipped", "chosen"}
    /\ holder \in Installs \cup {None} /\ install \in [Installs -> Installing]

InstallInit ==
    /\ config = None /\ personas = "none" /\ holder = None
    /\ install = [p \in Installs |-> [by |-> "nobody", at |-> "start", answers |-> <<>>,
                                      doc |-> BLANK_DOCUMENT, started |-> BLANK_DOCUMENT]]

-----------------------------------------------------------------------------
(* The parser, the interview's questions and their order *)

\* An external Temporal has an address; what a managed one has is not read.
parse_controlplane_config(doc) == doc.temporal = "external" => doc.address

\* What is asked after a question, of a document that has its answer.
following(question, doc) ==
    CASE question = "llm" -> IF doc.llm = "gateway" THEN "gateway" ELSE "base_url"
      [] question = "gateway" -> IF doc.gateway = "managed" THEN "master_key" ELSE "base_url"
      [] question = "base_url" -> IF doc.llm = "gateway" THEN "master_key" ELSE "api_key"
      [] question \in {"master_key", "api_key"} -> "memory"
      [] question = "memory" -> IF doc.memory = "none" THEN "temporal" ELSE "memory_url"
      [] question = "memory_url" -> "memory_key"
      [] question = "memory_key" -> "temporal"
      [] question = "temporal" -> IF doc.temporal = "managed" THEN "otlp" ELSE "address"
      [] question = "address" -> "namespace"
      [] question = "namespace" -> "temporal_key"
      [] question = "temporal_key" -> "tls"
      [] question = "tls" -> "otlp"
      [] question = "otlp" -> "adapter"
      [] question = "adapter" -> IF doc.adapter = "none" THEN "write" ELSE "bot"
      [] question = "bot" -> "chat"
      [] question = "chat" -> "write"

\* The values a question's field has by name; others take any text.
Known(question) ==
    CASE question = "llm" -> {"gateway", "direct"}
      [] question = "gateway" -> {"external", "managed"}
      [] question = "memory" -> {"none", "hindsight"}
      [] question = "temporal" -> {"external", "managed"}
      [] question = "adapter" -> {"telegram", "none"}
      [] OTHER -> Tokens

\* An empty answer keeps what the document has.
apply(question, answer, doc) ==
    CASE answer = "" -> doc
      [] question = "llm" -> IF answer = doc.llm THEN doc
                             ELSE [doc EXCEPT !.llm = answer, !.gateway = "external"]
      [] question = "gateway" -> [doc EXCEPT !.gateway = answer]
      [] question = "memory" -> [doc EXCEPT !.memory = answer]
      [] question = "temporal" -> [doc EXCEPT !.temporal = answer]
      [] question = "address" -> [doc EXCEPT !.address = TRUE]
      [] question = "otlp" -> [doc EXCEPT !.otlp = TRUE]
      [] question = "adapter" -> [doc EXCEPT !.adapter = answer,
                                             !.chat = IF answer = "none" THEN FALSE ELSE @]
      [] question = "chat" -> [doc EXCEPT !.chat = TRUE]
      [] OTHER -> doc

\* Variant: an answer is taken when its own field has it.
Accepted_alone(question, answer, doc) == answer \in Known(question) \cup {""}

\* The whole document with the answer in it is what is parsed.
Accepted(question, answer, doc) ==
    /\ answer \in Known(question) \cup {""}
    /\ parse_controlplane_config(apply(question, answer, doc))

\* A Temporal that is managed drops the address.
Settled(question, doc) ==
    IF question = "temporal" /\ doc.temporal = "managed" THEN [doc EXCEPT !.address = FALSE] ELSE doc

\* The answers a file stands for, in the order they are planned.
Given(there) == IF there THEN "text" ELSE ""
_plan_file_answers(doc) ==
    <<doc.llm>>
    \o (IF doc.llm = "direct" THEN <<"text">>
        ELSE IF doc.gateway = "managed" THEN <<"managed", "text">> ELSE <<"external", "text", "text">>)
    \o <<doc.memory>> \o (IF doc.memory = "none" THEN <<>> ELSE <<"text", "">>)
    \o <<doc.temporal>> \o (IF doc.temporal = "managed" THEN <<>> ELSE <<"text", "text", "", "text">>)
    \o <<Given(doc.otlp), doc.adapter, Given(doc.chat), Given(doc.chat)>>

-----------------------------------------------------------------------------
(* An install *)

Over(p, how) ==
    /\ install' = [install EXCEPT ![p].at = how, ![p].doc = BLANK_DOCUMENT,
                                  ![p].started = BLANK_DOCUMENT, ![p].answers = <<>>]
    /\ holder' = IF holder = p THEN None ELSE holder

\* A file is parsed as the document it completes to, before anything is
\* written; the defaults are a file of their own.  The registry of personas
\* that is not there is seeded before the lock is asked for.
BeginInstall(p) ==
    /\ install[p].by = "nobody"
    /\ \/ \E doc \in Document :
             /\ doc.llm = "direct" => doc.gateway = "external"
             /\ doc.adapter = "none" => ~doc.chat
             /\ doc.address = (doc.temporal = "external") /\ parse_controlplane_config(doc)
             /\ install' = [install EXCEPT ![p].by = "file", ![p].at = "lock",
                                           ![p].answers = _plan_file_answers(doc)]
       \/ install' = [install EXCEPT ![p].by = "terminal", ![p].at = "lock"]
    /\ personas' = IF personas = "none" THEN "shipped" ELSE personas
    /\ UNCHANGED <<config, holder>>

\* Variant: the config is read, then the lock is asked for.
TakeLock_after(p) ==
    /\ install[p].at = "lock"
    /\ LET doc == IF config = None THEN BLANK_DOCUMENT ELSE config
       IN  \/ install[p].answers # <<"read">> /\ config # Torn /\ install[p].by = "terminal"
              /\ install' = [install EXCEPT ![p].doc = doc, ![p].started = doc, ![p].answers = <<"read">>]
              /\ UNCHANGED holder
           \/ holder = None /\ holder' = p /\ install[p].answers = <<"read">>
              /\ install' = [install EXCEPT ![p].at = "llm", ![p].answers = <<>>]
    /\ UNCHANGED <<config, personas>>

\* One that waits too long is refused.
TakeLock(p) ==
    /\ install[p].at = "lock"
    /\ \/ holder = None /\ holder' = p /\ install' = [install EXCEPT ![p].at = "read"]
       \/ holder # None /\ Over(p, "refused")
    /\ UNCHANGED <<config, personas>>

\* What is there and does not parse is refused and left.
_starting_document(p) ==
    /\ install[p].at = "read"
    /\ LET doc == IF config = None THEN BLANK_DOCUMENT ELSE config
       IN  IF config = Torn THEN Over(p, "refused")
           ELSE /\ install' = [install EXCEPT ![p].at = "llm", ![p].doc = doc, ![p].started = doc]
                /\ UNCHANGED holder
    /\ UNCHANGED <<config, personas>>

\* Asked until the document parses with the answer in it; a planned answer
\* that does not, and a plan that runs out, is an assertion that fails.  A
\* managed Temporal needs a user session to run in.
_ask(p) ==
    /\ install[p].at \in Questions
    /\ LET question == install[p].at
           doc == install[p].doc
           took(answer) == Settled(question, apply(question, answer, doc))
           go(answer) ==
               \/ /\ install' = [install EXCEPT ![p].doc = took(answer), ![p].at = following(question, took(answer)),
                                                ![p].answers = IF @ = <<>> THEN @ ELSE Tail(@)]
                  /\ UNCHANGED holder
               \/ question = "temporal" /\ took(answer).temporal = "managed" /\ Over(p, "refused")
       IN  \/ install[p].by = "terminal" /\ \E answer \in Tokens : Accepted(question, answer, doc) /\ go(answer)
           \/ install[p].by = "file"
              /\ IF install[p].answers = <<>> \/ ~Accepted(question, Head(install[p].answers), doc)
                 THEN Over(p, "asserted")
                 ELSE go(Head(install[p].answers))
    /\ UNCHANGED <<config, personas>>

\* Written in place: who dies here leaves part of it.
_write_config(p) ==
    /\ install[p].at = "write"
    /\ \/ /\ config' = install[p].doc
          /\ IF install[p].by = "terminal"
             THEN install' = [install EXCEPT ![p].at = "personas"] /\ UNCHANGED holder
             ELSE Over(p, "done")
       \/ config' = Torn /\ Over(p, "died")
    /\ UNCHANGED personas

\* Only at a terminal, and only of a gateway: its key is what the aliases are
\* fetched with.  A persona nothing satisfies is refused; the registry is replaced.
_interview_personas(p) ==
    /\ install[p].at = "personas"
    /\ \/ install[p].doc.llm = "gateway" /\ personas' = "chosen" /\ Over(p, "done")
       \/ Over(p, "refused") /\ UNCHANGED personas
    /\ UNCHANGED config

InstallDies(p) ==
    /\ install[p].by # "nobody" /\ install[p].at \notin InstallOver
    /\ Over(p, "died") /\ UNCHANGED <<config, personas>>

InstallNext ==
    \E p \in Installs :
        BeginInstall(p) \/ TakeLock(p) \/ _starting_document(p) \/ _ask(p) \/ _write_config(p)
        \/ _interview_personas(p) \/ InstallDies(p)

InstallSpec == InstallInit /\ [][InstallNext]_xvars

-----------------------------------------------------------------------------
(* Properties *)

\* What is written is what the parser takes: a config that is there can be
\* loaded, unless the install that wrote it died over it.
ConfigLoads == config \notin {None, Torn} => parse_controlplane_config(config)

\* An interview asks of the config that is there while it asks: what another
\* install wrote meanwhile is not written over from an older reading.
AsksOfWhatIsThere ==
    \A p \in Installs : install[p].at \in Questions \cup {"write"} =>
        install[p].started = IF config = None THEN BLANK_DOCUMENT ELSE config

\* "the answer file is pre-validated before the interview begins"
AnswersAreAccepted == \A p \in Installs : install[p].at # "asserted"
=============================================================================
