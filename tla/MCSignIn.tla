------------------------------ MODULE MCSignIn ------------------------------
(* Two addresses; one has two identities of one provider, which one user   *)
(* cannot both link, and may be signed up through either.                  *)
EXTENDS SignIn, TLC
CONSTANTS e1, e2, i1, i2
MCMailOf == i1 :> e1 @@ i2 :> e1
MCProviderOf == i1 :> "github" @@ i2 :> "github"
MCKeys == {"oauth_callback", "password_login_ip"} \cup Mails

(* Bound: time passes and rows are pruned between requests.  A request     *)
(* asks the limiter in its first step, so that what comes after in it does *)
(* not depend on the time.                                                 *)
Quiet == At("new") # Requests /\ \A r \in Requests : req[r].stage \in Ended \cup {"new"}

BoundedSpec ==
    Init /\ [][Next /\ (req' = req /\ rateVars' # rateVars => Quiet)]_vars /\ Fairness
=============================================================================
