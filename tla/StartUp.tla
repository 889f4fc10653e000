------------------------------- MODULE StartUp -------------------------------
(***************************************************************************)
(* How the service starts and who may speak to it: settings and their order of  *)
(* precedence, what is seeded into AppConfig, which crons are registered, the   *)
(* token, which requests reach the API and which get the page, how the client   *)
(* reads an answer, and the calls of the language model with their fallback.    *)
(*                                                                           *)
(* An environment is a function from names to values; None is unset or empty.   *)
(***************************************************************************)
EXTENDS Integers, FiniteSets, Sequences

LOCAL INSTANCE SequencesExt

None == "none"

----------------------------------------------------------------------------
\* Settings.

FirstGiven(env, names) ==
  LET given == SelectSeq(names, LAMBDA n : env[n] # None)
  IN IF given = <<>> THEN None ELSE env[given[1]]

\* parseEnvFlag: anything else says nothing.
parseEnvFlag(raw) ==
  IF raw \in {"true", "1", "yes", "on", "y"} THEN {TRUE}
  ELSE IF raw \in {"false", "0", "no", "off", "n"} THEN {FALSE} ELSE {}

\* resolveLlmEnabled: key tells whether there is a key of more than eight characters.
resolveLlmEnabled(raw, key) == key /\ parseEnvFlag(raw) # {FALSE}

\* resolveRedisUrl: a URL if one is given, else one put together; without a password
\* it names no user either.
Redis(scheme, host, port, user, password) ==
  [scheme |-> scheme, host |-> host, port |-> port, user |-> user, password |-> password]
OrElse(value, other) == IF value = None THEN other ELSE value

resolveRedisUrl(env) ==
  LET url == FirstGiven(env, <<"REDIS_URL", "REDIS_PRIVATE_URL", "redis_url">>)
      host == FirstGiven(env, <<"REDISHOST", "REDIS_HOST">>)
      port == OrElse(FirstGiven(env, <<"REDISPORT", "REDIS_PORT">>), "6379")
      user == OrElse(FirstGiven(env, <<"REDISUSER", "REDIS_USER">>), "default")
      password == FirstGiven(env, <<"REDISPASSWORD", "REDIS_PASSWORD">>)
  IN IF url # None THEN url
     ELSE IF host = None THEN Redis("redis", "localhost", "6379", None, None)
     ELSE Redis("redis", host, port, IF password = None THEN None ELSE user, password)

\* buildRedisConnection: no connection to anything that is not a Redis URL.
buildRedisConnection(url) ==
  IF url.scheme \notin {"redis", "rediss"} THEN {}
  ELSE {[host |-> url.host, port |-> OrElse(url.port, "6379"), username |-> url.user,
         password |-> url.password, tls |-> url.scheme = "rediss"]}

\* bootstrap: what stops the process.  Seeding and crons do not.
Bootstrap(env, migrates) ==
  IF env["DATABASE_URL"] = None \/ ~migrates \/ buildRedisConnection(resolveRedisUrl(env)) = {}
  THEN "exits" ELSE "listens"

----------------------------------------------------------------------------
\* AppConfig: stored is a function from keys to values.

DefaultKeys == <<"commercialLandUseCodes", "commercialPropTypes", "scoreWeights", "landUsePriority",
                 "fieldMap", "digestFmvFloor", "submarketBands", "prioritySubmarkets">>

\* seedDefaults adds the keys that are missing, the first upTo of them: a failure ends
\* the seeding and the boot goes on.
SeedDefaults(stored, defaults, upTo) ==
  LET seen == {DefaultKeys[i] : i \in 1..upTo}
  IN [k \in DOMAIN stored \cup seen |-> IF k \in DOMAIN stored THEN stored[k] ELSE defaults[k]]

getJson(stored, key, fallback) == IF key \in DOMAIN stored THEN stored[key] ELSE fallback

\* getDigestFmvFloor: a value that is no number is as good as none.
DEFAULT_DIGEST_FMV_FLOOR == 250000
getDigestFmvFloor(stored) ==
  LET value == getJson(stored, "digestFmvFloor", DEFAULT_DIGEST_FMV_FLOOR)
  IN IF value \in Int THEN value ELSE DEFAULT_DIGEST_FMV_FLOOR

\* getScoreWeights: a weight that the stored ones lack is the default one.
MergeScoreWeights(stored, weights) ==
  [w \in DOMAIN weights \cup DOMAIN stored |-> IF w \in DOMAIN stored THEN stored[w] ELSE weights[w]]

----------------------------------------------------------------------------
\* JobsScheduler.onApplicationBootstrap: the crons in the order they are registered;
\* the first that cannot be ends it.  Those of an earlier boot are still in Redis.

Crons == <<"parcels-daily", "enrichment-daily", "rod-watch", "tax-delinquency", "digest-weekly",
           "events-weekly", "events-briefs", "reports-quarterly", "signals-ucc", "signals-fmcsa",
           "signals-echo", "signals-sba", "signals-imports", "signals-hiring", "signals-aerial",
           "signals-score-nightly">>

RegisterCrons(before, failing) ==
  before \cup {Crons[i] : i \in {j \in DOMAIN Crons : \A k \in 1..j : Crons[k] \notin failing}}

----------------------------------------------------------------------------
\* Requests.  ApiTokenGuard: without a token of its own the server admits nobody.

Admitted(expected, bearer, apiKey) == expected # None /\ OrElse(bearer, apiKey) = expected

API_PREFIXES == {"parcels", "leads", "admin", "dashboard", "events", "agents", "reports", "analytics",
                 "owners", "progress", "notes", "drive-by", "health"}

\* What the controllers and the client's router go by.
Controllers == API_PREFIXES \cup {"industrial", "requirements"}
Screens == {"", "login", "quests", "notes", "drive-by", "signals", "requirements", "parcels", "owners", "map",
            "pipeline", "events", "agents", "review", "admin"}

\* main.ts: who answers.  first is the first segment of the path, dotted that there is a
\* dot in it, file that the bundle has a file of that path.
AnsweredBy(request, bundled) ==
  IF request.method = "GET" /\ request.first = "health" THEN "health"
  ELSE IF ~bundled THEN IF request.method = "GET" /\ request.first = "" THEN "service" ELSE "api"
  ELSE IF request.method \notin {"GET", "HEAD"} THEN "api"
  ELSE IF request.file THEN "file"
  ELSE IF request.first \in API_PREFIXES \/ request.dotted THEN "api" ELSE "page"

\* The client's request(): what it makes of an answer, and whether the token is kept.
ClientReads(answer) ==
  [result |-> IF answer.status \in 200..299 /\ answer.status # 204 /\ ~answer.json THEN "no json"
              ELSE IF answer.status \in 200..299 THEN "data" ELSE "error",
   token |-> answer.status \notin {401, 403}]

\* verifyToken: a server that fails passes for a token that is right; one that cannot be
\* reached (status 0) tells nothing.
Verified(token, status) ==
  IF token = None THEN {FALSE} ELSE IF status = 0 THEN {}
  ELSE {status >= 500 \/ status \in 200..299}

\* AuthProvider: at the start with a token kept from before, and at a login.
Started(token, status) ==
  [authenticated |-> TRUE \in Verified(token, status),
   token |-> IF FALSE \in Verified(token, status) THEN None ELSE token]
Login(was, token, status) ==
  [authenticated |-> was \/ TRUE \in Verified(token, status),
   token |-> IF FALSE \in Verified(token, status) THEN None ELSE token]

----------------------------------------------------------------------------
\* LlmService: answers is what the model gives to one attempt after the other, "fails"
\* or a text.  Text is asked for three times, whatever the failure; a picture once.

CompleteText(enabled, answers) ==
  LET good == {n \in 1..3 : answers[n] # "fails"}
      n == CHOOSE x \in good : \A y \in good : x <= y
  IN IF ~enabled THEN [calls |-> 0, text |-> None]
     ELSE IF good = {} THEN [calls |-> 3, text |-> None] ELSE [calls |-> n, text |-> answers[n]]

\* completeJson: text that holds no JSON is not asked for again.
CompleteJson(enabled, answers) ==
  LET said == CompleteText(enabled, answers)
  IN IF said.text = "json" THEN said ELSE [said EXCEPT !.text = None]

CompleteVisionText(enabled, length, answers) ==
  IF ~enabled \/ length \notin 80..1800000 THEN [calls |-> 0, text |-> None]
  ELSE [calls |-> 1, text |-> IF answers[1] = "fails" THEN None ELSE answers[1]]

\* OutreachService.draftsForParcel: whom the draft is addressed to (contacts newest
\* first), and where its text is from.  A parcel nobody has is told before anything else.
Addressee(contacts) ==
  LET last == SubSeq(contacts, 1, IF Len(contacts) < 5 THEN Len(contacts) ELSE 5)
      reachable == SelectSeq(last, LAMBDA c : c.phone \/ c.email)
  IN IF reachable # <<>> THEN {reachable[1]} ELSE IF last # <<>> THEN {last[1]} ELSE {}

Drafts(mode, enabled, known, answers) ==
  LET wanted == mode = "always" \/ (mode = "auto" /\ enabled)
      said == CompleteJson(enabled, answers)
  IN IF ~known THEN [source |-> "not found", calls |-> 0]
     ELSE IF ~wanted THEN [source |-> "template", calls |-> 0]
     ELSE [source |-> IF said.text = None THEN "template" ELSE "llm", calls |-> said.calls]

----------------------------------------------------------------------------
\* NotesService: the two hundred touched last of those asked for (no answer to a kind
\* there is not), a change of some fields, a removal.  A change is not asked for a body,
\* so that a note may be left with none.

NoteKinds == {"property", "connection", "meeting"}

ListNotes(notes, q) ==
  LET asked == {n \in notes : \A f \in DOMAIN q : q[f] # None => n[f] = q[f]}
  IN IF q.kind \notin NoteKinds \cup {None} THEN {}
     ELSE {{n \in asked : Cardinality({m \in asked : m.touched > n.touched}) < 200}}

UpdateNote(notes, id, change, now) ==
  IF "meeting" \in DOMAIN change /\ change.meeting = "no date" THEN notes
  ELSE {IF n.id # id THEN n
        ELSE [f \in DOMAIN n |-> IF f \in DOMAIN change THEN change[f] ELSE IF f = "touched" THEN now ELSE n[f]] :
          n \in notes}

RemoveNote(notes, id) == {n \in notes : n.id # id}
=============================================================================
