------------------------------ MODULE Billing ------------------------------
(***************************************************************************)
(* finops/cost_tracker.py, cost_analyzer.py and billing.py: what the calls *)
(* cost, day and month sums beside the list of entries, tiers, invoices    *)
(* over what get_tenant_usage says of a period, their payment, the tier    *)
(* advised, and what the analysis of the costs recommends.                 *)
(* An entry stands for many calls of one tenant, one model and one day,    *)
(* all cached or none. Tokens are counted in ten thousands, money in       *)
(* cents, and the total of an invoice in thousandths of a cent.            *)
(***************************************************************************)
EXTENDS Integers, Sequences, SequencesExt, FiniteSetsExt

CONSTANTS Tenants, Calls, MaxEntries, MaxInvoices, Month, MaxDay, None,
          Offered   \* the places, in the table, of the tiers tenants are given

VARIABLES today, entries, daily, monthly, tenant_tiers, invoices
vars == <<today, entries, daily, monthly, tenant_tiers, invoices>>

(* The tiers in the order of the table: the monthly cost, the tokens it     *)
(* includes, and the price of ten thousand more.                            *)
PRICING_TIERS ==
  <<[name |-> "free",         cost |-> 0,     tokens |-> 1,    overage |-> 5],
    [name |-> "starter",      cost |-> 2900,  tokens |-> 10,   overage |-> 3],
    [name |-> "professional", cost |-> 9900,  tokens |-> 100,  overage |-> 2],
    [name |-> "enterprise",   cost |-> 49900, tokens |-> 1000, overage |-> 1]>>
(* The price of ten thousand tokens; any model not in the table costs 2.    *)
MODEL_PRICING == [m \in {"model-4", "model-3.5-turbo-16k"} |->
  IF m = "model-4" THEN [prompt |-> 30, completion |-> 60] ELSE [prompt |-> 3, completion |-> 4]]

Days == 0..MaxDay
MonthOf(d) == d \div Month
Tier(t) == IF tenant_tiers[t] = None THEN 1 ELSE tenant_tiers[t]

Init ==
  /\ today = 0 /\ entries = <<>> /\ invoices = <<>>
  /\ daily = [d \in Days |-> 0]
  /\ monthly = [k \in {MonthOf(d) : d \in Days} |-> 0]
  /\ tenant_tiers = [t \in Tenants |-> None]

(***************************************************************************)
(* What calls cost                                                         *)
(***************************************************************************)
_calculate_cost(model, type, tokens) ==
  tokens * (IF model \in DOMAIN MODEL_PRICING THEN MODEL_PRICING[model][type] ELSE 2)
Cost(c) == _calculate_cost(c.model, "prompt", c.prompt)
             + _calculate_cost(c.model, "completion", c.completion)

\* Variant: cached calls are left out of the sums.
track_usage_Paid(t, c, cached) ==
  /\ Len(entries) < MaxEntries
  /\ entries' = Append(entries, [day |-> today, tenant |-> t, call |-> c, cached |-> cached])
  /\ daily' = [daily EXCEPT ![today] = @ + (IF cached THEN 0 ELSE Cost(c))]
  /\ monthly' = [monthly EXCEPT ![MonthOf(today)] = @ + (IF cached THEN 0 ELSE Cost(c))]
  /\ UNCHANGED <<today, tenant_tiers, invoices>>
(* Cached calls are added to the sums with what they would have cost.       *)
track_usage(t, c, cached) ==
  /\ Len(entries) < MaxEntries
  /\ entries' = Append(entries, [day |-> today, tenant |-> t, call |-> c, cached |-> cached])
  /\ daily' = [daily EXCEPT ![today] = @ + Cost(c)]
  /\ monthly' = [monthly EXCEPT ![MonthOf(today)] = @ + Cost(c)]
  /\ UNCHANGED <<today, tenant_tiers, invoices>>

(* What a number of each entry comes to.                                    *)
Total(es, of(_)) == FoldLeft(LAMBDA sum, e : sum + of(e), 0, es)
(* The calls of a period, of one tenant or (None) of all; the tokens and    *)
(* the costs are of those that were not cached.                             *)
get_summary(t, from, to) ==
  LET es == SelectSeq(entries, LAMBDA e : e.day \in from..to /\ t \in {e.tenant, None})
      asked == SelectSeq(es, LAMBDA e : ~e.cached)
      cached == SelectSeq(es, LAMBDA e : e.cached) IN
    [requests |-> Total(es, LAMBDA e : e.call.requests),
     cached_requests |-> Total(cached, LAMBDA e : e.call.requests),
     prompt |-> Total(asked, LAMBDA e : e.call.prompt),
     completion |-> Total(asked, LAMBDA e : e.call.completion),
     tokens |-> Total(asked, LAMBDA e : e.call.prompt + e.call.completion),
     completion_cost |-> Total(asked, LAMBDA e :
                           _calculate_cost(e.call.model, "completion", e.call.completion)),
     cost |-> Total(asked, LAMBDA e : Cost(e.call)),
     model4_cost |-> Total(SelectSeq(asked, LAMBDA e : e.call.model = "model-4"),
                           LAMBDA e : Cost(e.call)),
     savings |-> Total(cached, LAMBDA e : Cost(e.call))]

\* Variant: what shorter responses would still cost is taken for what they save.
_generate_optimizations_Rest(s) ==
  LET all == <<[title |-> "cache", holds |-> 10 * s.cached_requests < 3 * s.requests \/ s.requests = 0,
                savings |-> 20 * s.cost],
               [title |-> "model", holds |-> 2 * s.model4_cost > s.cost,
                savings |-> 30 * s.model4_cost],
               [title |-> "response", holds |-> s.completion > 2 * s.prompt,
                savings |-> 75 * s.completion_cost],
               [title |-> "tokens", holds |-> 5 * s.tokens > Max({s.requests, 1}),
                savings |-> 15 * s.cost]>>
  IN SelectSeq(all, LAMBDA o : o.holds)
(* The recommendations of the analysis in the order of their priorities,    *)
(* with what each may save, in hundredths of a cent. Two thousand tokens a  *)
(* request are a fifth of the unit.                                         *)
_generate_optimizations(s) ==
  LET all == <<[title |-> "cache", holds |-> 10 * s.cached_requests < 3 * s.requests \/ s.requests = 0,
                savings |-> 20 * s.cost],
               [title |-> "model", holds |-> 2 * s.model4_cost > s.cost,
                savings |-> 30 * s.model4_cost],
               [title |-> "response", holds |-> s.completion > 2 * s.prompt,
                savings |-> 25 * s.completion_cost],
               [title |-> "tokens", holds |-> 5 * s.tokens > Max({s.requests, 1}),
                savings |-> 15 * s.cost]>>
  IN SelectSeq(all, LAMBDA o : o.holds)

(* The cost, how it is split, the share of requests that came from the      *)
(* cache and the share of the cost it saved, in percent.                    *)
analyze_costs(from, to) ==
  LET s == get_summary(None, from, to) IN
    [total_cost |-> s.cost,
     hit_rate |-> (100 * s.cached_requests) \div Max({s.requests, 1}),
     savings_percentage |-> (100 * s.savings) \div Max({s.cost + s.savings, 100}),
     by_type |-> [prompt |-> s.cost - s.completion_cost, completion |-> s.completion_cost],
     optimizations |-> _generate_optimizations(s)]

(***************************************************************************)
(* What is billed                                                          *)
(***************************************************************************)
set_tenant_tier(t, n) ==
  /\ tenant_tiers' = [tenant_tiers EXCEPT ![t] = n]
  /\ UNCHANGED <<today, entries, daily, monthly, invoices>>

\* Variant: tokens that are not used up are taken off the monthly cost.
Charge_Refunded(n, tokens) ==
  PRICING_TIERS[n].cost + (tokens - PRICING_TIERS[n].tokens) * PRICING_TIERS[n].overage
(* The monthly cost and the tokens beyond it.                               *)
Charge(n, tokens) ==
  LET tier == PRICING_TIERS[n] IN
    tier.cost + (IF tokens > tier.tokens THEN (tokens - tier.tokens) * tier.overage ELSE 0)
(* The percentage taken off for many calls, and for more than half cached.  *)
Discount(usage) ==
  (CASE usage.requests > 50000 -> 10 [] usage.requests > 10000 -> 5 [] OTHER -> 0)
    + (IF 2 * usage.cached_requests > usage.requests THEN 5 ELSE 0)
(* What is left after the discount, with a tenth of it as tax.              *)
TotalCost(n, usage) == Charge(n, usage.tokens) * (100 - Discount(usage)) * 11

(* Nothing keeps a period from being billed twice.                          *)
generate_invoice(t, from) ==
  /\ Len(invoices) < MaxInvoices
  /\ LET usage == get_summary(t, from, today) IN
       invoices' = Append(invoices,
         [tenant |-> t, from |-> from, to |-> today, tier |-> Tier(t), tokens |-> usage.tokens,
          total |-> TotalCost(Tier(t), usage), status |-> "draft"])
  /\ UNCHANGED <<today, entries, daily, monthly, tenant_tiers>>
mark_invoice_paid(k) ==
  /\ invoices' = [invoices EXCEPT ![k].status = "paid"]
  /\ UNCHANGED <<today, entries, daily, monthly, tenant_tiers>>

\* Variant: what was paid is summed over the invoices of all tenants.
get_billing_summary_AllPaid(t) ==
  LET mine == SelectSeq(invoices, LAMBDA v : v.tenant = t)
      billed == Total(mine, LAMBDA v : v.total)
      paid == Total(SelectSeq(invoices, LAMBDA v : v.status = "paid"), LAMBDA v : v.total) IN
    [billed |-> billed, paid |-> paid, outstanding |-> billed - paid]
get_billing_summary(t) ==
  LET mine == SelectSeq(invoices, LAMBDA v : v.tenant = t)
      billed == Total(mine, LAMBDA v : v.total)
      paid == Total(SelectSeq(mine, LAMBDA v : v.status = "paid"), LAMBDA v : v.total) IN
    [billed |-> billed, paid |-> paid, outstanding |-> billed - paid]

\* Variant: the first tier that includes the tokens is advised.
_recommend_tier_Included(tokens) ==
  LET fit == {n \in DOMAIN PRICING_TIERS : PRICING_TIERS[n].tokens >= tokens} IN
    IF fit = {} THEN Len(PRICING_TIERS) ELSE Min(fit)
(* The first of the cheapest tiers.                                         *)
_recommend_tier(tokens) ==
  CHOOSE n \in DOMAIN PRICING_TIERS :
    \A k \in DOMAIN PRICING_TIERS :
      /\ Charge(n, tokens) <= Charge(k, tokens)
      /\ k < n => Charge(n, tokens) < Charge(k, tokens)
_calculate_savings(n, advised, tokens) ==
  IF n = advised THEN 0 ELSE Max({0, Charge(n, tokens) - Charge(advised, tokens)})

(* The cost of a month of such days at the tenant's tier, and the advice.   *)
estimate_monthly_cost(t, daily_tokens) ==
  LET tokens == 30 * daily_tokens
      advised == _recommend_tier(tokens) IN
    [cost |-> Charge(Tier(t), tokens), tier |-> advised,
     savings |-> _calculate_savings(Tier(t), advised, tokens)]

NextDay ==
  /\ today < MaxDay
  /\ today' = today + 1
  /\ UNCHANGED <<entries, daily, monthly, tenant_tiers, invoices>>

Next ==
  \/ \E t \in Tenants :
       \/ \E c \in Calls, cached \in BOOLEAN : track_usage(t, c, cached)
       \/ \E n \in Offered : set_tenant_tier(t, n)
       \/ \E from \in 0..today : generate_invoice(t, from)
  \/ \E k \in DOMAIN invoices : mark_invoice_paid(k)
  \/ NextDay

TypeOK ==
  /\ today \in Days /\ Len(entries) <= MaxEntries
  /\ \A d \in Days : daily[d] \in Nat
  /\ \A k \in DOMAIN monthly : monthly[k] \in Nat
  /\ tenant_tiers \in [Tenants -> DOMAIN PRICING_TIERS \cup {None}]
  /\ \A k \in DOMAIN invoices :
       invoices[k] \in [tenant : Tenants, from : Days, to : Days, tier : DOMAIN PRICING_TIERS,
                        tokens : Nat, total : Nat, status : {"draft", "paid"}]

(* The sums of a day and of a month are those of the entries - with what    *)
(* the summary reports as saved, which the sums count as spent.             *)
SumsMatchEntries ==
  /\ \A d \in Days : daily[d] = get_summary(None, d, d).cost + get_summary(None, d, d).savings
  /\ \A k \in DOMAIN monthly :
       monthly[k] = Total(SelectSeq(entries, LAMBDA e : MonthOf(e.day) = k),
                          LAMBDA e : Cost(e.call))
(* If every day were as this one, no tier would be billed less for the      *)
(* month than the one advised, whatever the discounts, and the savings are  *)
(* what the tenant's own tier costs more.                                   *)
AdviceIsCheapest ==
  \A t \in Tenants :
    LET day == get_summary(t, today, today)
        month == [day EXCEPT !.tokens = 30 * @]
        advice == estimate_monthly_cost(t, day.tokens) IN
      /\ \A n \in DOMAIN PRICING_TIERS : TotalCost(advice.tier, month) <= TotalCost(n, month)
      /\ advice.cost - advice.savings = Charge(advice.tier, month.tokens)
(* Whatever calls a period had, what the analysis says could be saved, all  *)
(* recommendations taken together, is less than what was spent.             *)
SavingsWithinCost ==
  \A to \in 0..today : \A from \in 0..to :
    LET analysis == analyze_costs(from, to) IN
      /\ Total(analysis.optimizations, LAMBDA o : o.savings) <= 100 * analysis.total_cost
      /\ analysis.savings_percentage \in 0..100
(* A tenant owes what its own unpaid invoices say, whoever pays meanwhile,  *)
(* and never less than nothing.                                             *)
BalanceIsOwn ==
  \A t \in Tenants :
    /\ get_billing_summary(t).outstanding
         = Total(SelectSeq(invoices, LAMBDA v : v.tenant = t /\ v.status = "draft"),
                 LAMBDA v : v.total)
    /\ get_billing_summary(t).outstanding >= 0
=============================================================================
