------------------------------- MODULE Access -------------------------------
(***************************************************************************)
(* Who may call what: the routes of every controller, the guards in front  *)
(* of them (JwtAuthGuard, RolesGuard, PermissionsGuard), the checks some   *)
(* handlers make themselves, and the catalogue a staff role is granted     *)
(* from, while a Super Admin edits the role and decides on the provider.   *)
(*                                                                         *)
(* Routes of one controller that the same callers may call are one row,    *)
(* with the handlers' names.  A permission is a pair <<module, action>>.   *)
(* Routes without JwtAuthGuard (login, webhook, public lists) are left out. *)
(***************************************************************************)
EXTENDS Naturals

CONSTANT GrantChoices   \* permissions a Super Admin may store in the staff role

Admins   == {"SUPER_ADMIN", "STAFF"}
Customer == {"REGISTERED_USER"}
Provider == {"PROVIDER"}
Callers  == Admins \cup Customer \cup Provider

Perms(module, actions) == {module} \X actions

-----------------------------------------------------------------------------
(* The permission catalogue *)

\* Mutant: a module whose routes are guarded is missing from the catalogue.
MutantReadModules == {"dashboard", "reports", "systemHealth", "auditLogs"}

ReadModules == {"dashboard", "analytics", "reports", "systemHealth", "auditLogs"}

ReadUpdateModules ==
  {"users", "giftModeration", "notifications", "payoutSettings", "transactions",
   "refundPolicies", "systemSettings", "settings", "referralSettings",
   "socialModeration", "userSafety", "reviews", "reviewPolicies"}

ReadCreateUpdateModules == {"admins", "providers", "providerPayouts", "disputes"}

CrudModules ==
  {"documents", "gifts", "giftCategories", "subscriptionPlans", "planFeatures",
   "providerBusinessCategories", "promotionalOffers", "seasonalThemes",
   "socialReportingRules"}

Catalog ==
  (ReadModules \X {"read"})
  \cup (ReadUpdateModules \X {"read", "update"})
  \cup (ReadCreateUpdateModules \X {"read", "create", "update"})
  \cup (CrudModules \X {"read", "create", "update", "delete"})
  \cup Perms("broadcasts", {"create"})

ReadActions == {"read", "export", "analytics.read", "receipt.download", "generate"}

\* Mutant: moderation counts as reading.
MutantToCrudPermission(p) ==
  <<p[1], CASE p[2] \in ReadActions \cup {"moderate"} -> "read"
            [] p[2] \in {"create", "initiate"} -> "create"
            [] p[2] = "delete" -> "delete"
            [] OTHER -> "update">>

ToCrudPermission(p) ==
  <<p[1], CASE p[2] \in ReadActions -> "read"
            [] p[2] \in {"create", "initiate"} -> "create"
            [] p[2] = "delete" -> "delete"
            [] OTHER -> "update">>

ToCrud(ps) == {ToCrudPermission(p) : p \in ps}

-----------------------------------------------------------------------------
(* Routes *)

\* guard: permissions the decorator asks for, all of them.  checks: the sets of
\* permissions one of which the handler itself asks for ({{}}: it asks for none).
Route(path, who, guard, checks, write, handlers) ==
  [path |-> path, who |-> who, guard |-> guard, checks |-> checks,
   write |-> write, handlers |-> handlers]

\* Rows of an administration controller: pairs of an action and its handlers, for
\* those that read and those that write.
Staff(path, module, reads, writes) ==
  {Route(path, Admins, Perms(module, {g[1]}), {{}}, FALSE, g[2]) : g \in reads}
  \cup {Route(path, Admins, Perms(module, {g[1]}), {{}}, TRUE, g[2]) : g \in writes}

\* No decorator: the handler asks for one of the permissions of its action.
Checked(path, module, actions, handler) ==
  {Route(path, Admins, {}, {{<<module, a>>}}, TRUE, {handler}) : a \in actions}

\* The actions the handlers ask a permission for, each by its own name.
PayoutActions == {"approve", "hold", "reject"}
ReviewActions == {"approve", "remove", "hide", "penalize", "moderate"}
TransactionActions == {"refund", "openDispute", "notifyUser"}
OfferActions == {"approve", "reject", "status.update"}
ProviderActions == {"approve", "reject", "suspend", "updateStatus"}
UserActions == {"suspend", "unsuspend", "status.update"}
PlanFields == {"update", "status.update", "visibility.update"}

\* Editing a gift's status, its other fields, or both.
GiftEdits == {{"update"}, {"status.update"}, {"update", "status.update"}}

\* Words the handler of the social moderation looks for next to "moderate".
SocialActions == {{}, {"hide"}, {"remove"}, {"warn"}}

\* Rows that ask for a role only.
For(who, path, reads, writes) ==
  {Route(path, who, {}, {{}}, FALSE, reads), Route(path, who, {}, {{}}, TRUE, writes)}

SuperAdmin(path, reads, writes) == For({"SUPER_ADMIN"}, path, reads, writes)

AdminDashboardController ==
  Staff(<<"admin", "dashboard">>, "dashboard", {<<"read", {"get"}>>}, {})

AdminDisputesController ==
  Staff(<<"admin", "disputes">>, "disputes",
        {<<"read", {"stats", "list", "details"}>>}, {<<"review", {"review"}>>})

AdminDocumentsController ==
  Staff(<<"admin", "documents">>, "documents", {<<"read", {"list"}>>},
        {<<"create", {"create"}>>, <<"update", {"update"}>>, <<"delete", {"delete"}>>})

AdminPayoutSettingsController ==
  Staff(<<"admin", "payout-settings">>, "payoutSettings",
        {<<"read", {"get", "tiers", "auditLogs"}>>},
        {<<"update", {"createTier", "updateTier", "deleteTier"}>>})

AdminPlatformAnalyticsController ==
  Staff(<<"admin", "platform-analytics">>, "analytics",
        {<<"read", {"summary", "revenueTransactions"}>>, <<"export", {"report"}>>}, {})

AdminProviderPayoutsController ==
  Staff(<<"admin", "provider-payouts">>, "providerPayouts",
        {<<"read", {"stats", "trends", "earningDistribution", "list", "breakdown", "details"}>>,
         <<"export", {"export"}>>}, {})
  \cup Checked(<<"admin", "provider-payouts">>, "providerPayouts",
               PayoutActions, "action")
  \cup Checked(<<"admin", "provider-payouts">>, "providerPayouts", {"approve"}, "bulkAction")

AdminReviewsController ==
  Staff(<<"admin", "reviews">>, "reviews",
        {<<"read", {"dashboard", "stats", "flaggedSummary", "list", "details"}>>,
         <<"export", {"export"}>>, <<"moderate", {"moderationQueue"}>>}, {})
  \cup {Route(<<"admin", "reviews">>, Admins, {<<"reviews", "moderate">>},
              {{<<"reviews", a>>}}, TRUE, {"moderate"})
          : a \in ReviewActions}

ReviewPoliciesController ==
  Staff(<<"admin", "review-policies">>, "reviewPolicies",
        {<<"read", {"policies", "testPolicy"}>>}, {<<"update", {"updatePolicies"}>>})

AdminSystemHealthController ==
  Staff(<<"admin", "system-health">>, "systemHealth",
        {<<"read", {"stats", "latencyGraph"}>>}, {})

AdminTransactionsController ==
  Staff(<<"admin", "transactions">>, "transactions",
        {<<"read", {"stats", "list", "timeline", "details"}>>, <<"export", {"export"}>>,
         <<"receipt.download", {"receipt"}>>}, {})
  \cup Checked(<<"admin", "transactions">>, "transactions",
               TransactionActions, "action")

AuditLogsController ==
  SuperAdmin(<<"audit-logs">>, {"stats", "export", "list", "details"}, {})

BroadcastNotificationsController ==
  Staff(<<"broadcasts">>, "broadcasts", {}, {<<"create", {"create"}>>})

GiftCategoriesController ==
  Staff(<<"gift-categories">>, "giftCategories", {},
        {<<"create", {"createCategory"}>>, <<"update", {"updateCategory"}>>,
         <<"delete", {"deleteCategory"}>>})

GiftsController ==
  Staff(<<"gifts">>, "gifts",
        {<<"read", {"listGifts", "giftDetails"}>>, <<"export", {"exportGifts"}>>},
        {<<"delete", {"deleteGift"}>>})
  \cup Checked(<<"gifts">>, "gifts", {"create"}, "createGift")
  \cup {Route(<<"gifts">>, Admins, {}, {Perms("gifts", edit)}, TRUE, {"updateGift"})
          : edit \in GiftEdits}
  \cup {Route(<<"gifts">>, Provider, {}, {{}}, TRUE, {"createGift"})}

PromotionalOffersManagementController ==
  Staff(<<"promotional-offers">>, "promotionalOffers",
        {<<"read", {"stats", "listAdmin", "adminDetails"}>>, <<"export", {"export"}>>},
        {<<"create", {"createAdmin"}>>, <<"update", {"updateAdmin"}>>,
         <<"delete", {"deleteAdmin"}>>})
  \cup Checked(<<"promotional-offers">>, "promotionalOffers",
               OfferActions, "action")

ProviderBusinessCategoriesController ==
  Staff(<<"provider-business-categories">>, "providerBusinessCategories", {},
        {<<"create", {"create"}>>, <<"update", {"update"}>>, <<"delete", {"delete"}>>})

AdminProviderDocumentsController ==
  Staff(<<"admin", "providers">>, "providers", {<<"read", {"myDocuments"}>>},
        {<<"update", {"submitByAdmin", "reviewDocument"}>>})

ProviderManagementController ==
  Staff(<<"providers">>, "providers",
        {<<"read", {"stats", "list", "lookup", "details", "items", "activity"}>>,
         <<"export", {"export"}>>},
        {<<"create", {"create"}>>, <<"update", {"update"}>>, <<"message", {"message"}>>})
  \cup Checked(<<"providers">>, "providers",
               ProviderActions, "updateStatus")
  \cup SuperAdmin(<<"providers">>, {}, {"permanentlyDelete"})

ReferralSettingsController ==
  Staff(<<"referral-settings">>, "referralSettings", {<<"read", {"get", "stats"}>>}, {})
  \cup SuperAdmin(<<"referral-settings">>, {"auditLogs"}, {"update"})

RefundPolicySettingsController ==
  Staff(<<"admin", "refund-policy-settings">>, "refundPolicies", {<<"read", {"get"}>>}, {})
  \cup SuperAdmin(<<"admin", "refund-policy-settings">>, {}, {"update"})

SeasonalThemesAdminController ==
  Staff(<<"admin", "seasonal-themes">>, "seasonalThemes", {<<"read", {"list", "details"}>>},
        {<<"create", {"create"}>>, <<"update", {"update"}>>, <<"delete", {"delete"}>>})

\* The handler of the action asks for its words anywhere among the permissions: here,
\* in the module itself.
SocialModerationController ==
  Staff(<<"admin", "social-moderation">>, "socialModeration",
        {<<"read", {"stats", "reports", "reportDetails"}>>, <<"export", {"exportReports"}>>}, {})
  \cup {Route(<<"admin", "social-moderation">>, Admins, {<<"socialModeration", "moderate">>},
              {Perms("socialModeration", {"moderate"} \cup extra)}, TRUE, {"action"})
          : extra \in SocialActions}

SocialReportingRulesController ==
  Staff(<<"admin", "social-reporting-rules">>, "socialReportingRules",
        {<<"read", {"ruleStats", "rules", "ruleDetails"}>>, <<"export", {"exportRules"}>>},
        {<<"create", {"createRule"}>>, <<"update", {"updateRule"}>>,
         <<"delete", {"deleteRule"}>>})

StaffManagementController ==
  SuperAdmin(<<"staff">>, {"list", "details"},
             {"create", "update", "permanentlyDelete", "resetPassword"})

StaffRolesController ==
  SuperAdmin(<<"staff-roles">>, {"list", "details"},
             {"create", "update", "delete", "updatePermissions"})

PlanFeaturesController ==
  Staff(<<"plan-features">>, "planFeatures",
        {<<"read", {"featureCatalog", "listFeatures", "featureDetails"}>>},
        {<<"create", {"createFeature"}>>, <<"update", {"updateFeature"}>>,
         <<"delete", {"deleteFeature"}>>})

\* updatePlan asks again, for each kind of field that is edited.
SubscriptionPlansController ==
  Staff(<<"subscription-plans">>, "subscriptionPlans",
        {<<"read", {"listPlans", "planDetails"}>>, <<"analytics.read", {"stats", "analytics"}>>},
        {<<"create", {"createPlan"}>>, <<"delete", {"deletePlan"}>>})
  \cup {Route(<<"subscription-plans">>, Admins, {<<"subscriptionPlans", "update">>},
              {{<<"subscriptionPlans", a>>} : a \in {"update", kind}}, TRUE, {"updatePlan"})
          : kind \in PlanFields}

SystemSettingsController ==
  Staff(<<"admin", "system-settings">>, "systemSettings",
        {<<"read", {"get"}>>}, {<<"update", {"update"}>>})

UserManagementController ==
  Staff(<<"users">>, "users",
        {<<"read", {"list", "details", "activity", "stats"}>>,
         <<"export", {"exportRegisteredUsers"}>>},
        {<<"update", {"update"}>>, <<"resetPassword", {"resetPassword"}>>})
  \cup Checked(<<"users">>, "users", UserActions, "updateStatus")
  \cup SuperAdmin(<<"users">>, {}, {"permanentlyDelete"})

UserSafetyAdminController ==
  Staff(<<"admin", "user-safety">>, "userSafety",
        {<<"read", {"reports", "details"}>>, <<"export", {"export"}>>},
        {<<"moderate", {"action"}>>})

-----------------------------------------------------------------------------
(* Routes of customers, of providers, and of everyone who is logged in *)

AuthController ==
  For(Callers, <<"auth">>, {"me", "sessions"},
      {"logout", "verifyEmail", "resendVerification", "changePassword", "updateMe",
       "logoutAllSessions", "revokeSession", "deleteAccount"})

ChatsController ==
  For(Customer \cup Provider, <<"chats">>,
      {"listConversations", "getConversation", "getMessages"},
      {"startConversation", "sendMessage", "markAsRead"})

NotificationsController ==
  For(Callers, <<"notifications">>, {"list", "summary"},
      {"registerDeviceToken", "unregisterDeviceToken", "markAllRead", "markRead"})

\* A folder asks a member of staff for a permission on what the file is for, the folder
\* of their own avatar for none.
UploadPermissions ==
  {{<<"systemSettings", "update">>}, {<<"providers", "update">>}, {<<"users", "update">>},
   {<<"admins", "update">>}, Perms("giftCategories", {"create", "update"}),
   Perms("gifts", {"create", "update"}),
   Perms("seasonalThemes", {"read", "create", "update", "delete"})}

StorageController ==
  For(Callers, <<"uploads">>, {"list", "details"}, {"complete", "delete", "createPresignedUpload"})
  \cup {Route(<<"uploads">>, Admins, {}, {{p} : p \in folder}, TRUE, {"createPresignedUpload"})
          : folder \in UploadPermissions}

CustomerDisputesController ==
  For(Customer, <<"customer">>, {"customerList", "customerDetails"}, {"createForCustomer"})

CustomerContactsController ==
  For(Customer, <<"customer", "contacts">>, {"list", "details"}, {"create", "update", "delete"})

CustomerEventsController ==
  For(Customer, <<"customer", "events">>,
      {"list", "calendar", "upcoming", "reminderSettings", "details"},
      {"create", "updateReminderSettings", "update", "delete"})

CustomerMarketplaceController ==
  For(Customer, <<"customer">>,
      {"home", "categories", "discountedGifts", "filterOptions", "gifts", "giftDetails",
       "wishlist", "addresses", "addressDetails", "reminders", "reminderDetails", "cart",
       "orders", "orderDetails"},
      {"addWishlist", "removeWishlist", "createAddress", "updateAddress", "deleteAddress",
       "setDefaultAddress", "createReminder", "updateReminder", "deleteReminder",
       "addCartItem", "updateCartItem", "deleteCartItem", "clearCart", "createOrder",
       "cancelOrder"})

CustomerProviderInteractionsController ==
  For(Customer, <<"customer">>,
      {"reviews", "reviewDetails", "providerReportReasons", "providerReports",
       "providerReportDetails"},
      {"submitReview", "updateReview", "deleteReview", "reportProvider"})

CustomerRecurringPaymentsController ==
  For(Customer, <<"customer", "recurring-payments">>,
      {"list", "summary", "details", "history"}, {"create", "update", "action"})

CustomerReferralsController ==
  For(Customer, <<"customer">>,
      {"summary", "link", "history", "balance", "ledger", "terms"}, {"redeem"})

CustomerSubscriptionsController ==
  For(Customer, <<"customer", "subscription">>,
      {"plans", "current", "invoices", "invoiceDetails"}, {"checkout", "confirm", "action"})

CustomerTransactionsController ==
  For(Customer, <<"customer", "transactions">>,
      {"list", "summary", "export", "details", "receipt"}, {})

CustomerWalletController ==
  For(Customer, <<"customer">>, {"overview", "history", "bankAccounts"},
      {"addFunds", "confirmTopUp", "setDefaultBankAccount", "deleteBankAccount"})

PaymentsController ==
  For(Customer, <<"customer">>,
      {"details", "paymentMethods", "savedPaymentMethods", "moneyGifts", "moneyGiftDetails"},
      {"createIntent", "confirm", "createSetupIntent", "setDefaultPaymentMethod",
       "deletePaymentMethod", "createMoneyGift"})

UserSafetyController ==
  For(Customer, <<"customer">>, {"reportReasons", "reportsList", "reportDetails", "blockedUsers"},
      {"reportUser", "blockUser", "unblockUser"})

ProviderDisputesController ==
  For(Provider, <<"provider", "disputes">>, {"providerList", "providerDetails"},
      {"respondAsProvider"})

ProviderPromotionalOffersController ==
  For(Provider, <<"provider", "offers">>, {"listProvider", "providerDetails"},
      {"createProvider", "updateProvider", "deleteProvider"})

ProviderBusinessInfoController ==
  For(Provider, <<"provider", "business-info">>, {"get"}, {"update"})

ProviderDashboardController == For(Provider, <<"provider", "dashboard">>, {"get"}, {})

ProviderDocumentsController ==
  For(Provider, <<"provider", "documents">>, {"listDocuments", "myDocuments"},
      {"submitByProvider", "updateByProvider"})

ProviderEarningsController ==
  For(Provider, <<"provider", "earnings">>,
      {"earningsSummary", "earningsChart", "earningsLedger"}, {})

ProviderPayoutsController ==
  For(Provider, <<"provider", "payouts">>,
      {"payoutHistory", "payoutSummary", "payoutPreview", "payoutDetails"},
      {"requestPayout", "payoutAction"})

ProviderInteractionsController ==
  For(Provider, <<"provider", "reviews">>,
      {"reviewSummary", "filterOptions", "reviews", "reviewDetails"},
      {"createResponse", "updateResponse", "deleteResponse"})

ProviderInventoryController ==
  For(Provider, <<"provider", "inventory">>, {"list", "stats", "lookup", "details"},
      {"create", "update", "delete"})

ProviderOrdersController ==
  For(Provider, <<"provider", "orders">>,
      {"list", "history", "performance", "revenueAnalytics", "ratingsAnalytics", "recent",
       "export", "summary", "rejectReasons", "timeline", "details"}, {"updateOrderStatus"})

ProviderPayoutMethodsController ==
  For(Provider, <<"provider", "payout-methods">>, {"list", "details"},
      {"createBankAccount", "update", "delete", "setDefault", "verify"})

ProviderRefundRequestsController ==
  For(Provider, <<"provider", "refund-requests">>,
      {"list", "summary", "rejectReasons", "details"}, {"action"})

AdminRoutes ==
  UNION {AdminDashboardController, AdminDisputesController, AdminDocumentsController,
         AdminPayoutSettingsController, AdminPlatformAnalyticsController,
         AdminProviderPayoutsController, AdminReviewsController, ReviewPoliciesController,
         AdminSystemHealthController, AdminTransactionsController, AuditLogsController,
         BroadcastNotificationsController, GiftCategoriesController, GiftsController,
         PromotionalOffersManagementController, ProviderBusinessCategoriesController,
         AdminProviderDocumentsController, ProviderManagementController,
         ReferralSettingsController, RefundPolicySettingsController,
         SeasonalThemesAdminController, SocialModerationController,
         SocialReportingRulesController, StaffManagementController, StaffRolesController,
         PlanFeaturesController, SubscriptionPlansController, SystemSettingsController,
         UserManagementController, UserSafetyAdminController}

OtherRoutes ==
  UNION {AuthController, ChatsController, NotificationsController, StorageController,
         CustomerDisputesController, CustomerContactsController, CustomerEventsController,
         CustomerMarketplaceController, CustomerProviderInteractionsController,
         CustomerRecurringPaymentsController, CustomerReferralsController,
         CustomerSubscriptionsController, CustomerTransactionsController,
         CustomerWalletController, PaymentsController, UserSafetyController,
         ProviderDisputesController, ProviderPromotionalOffersController,
         ProviderBusinessInfoController, ProviderDashboardController,
         ProviderDocumentsController, ProviderEarningsController,
         ProviderPayoutsController, ProviderInteractionsController,
         ProviderInventoryController, ProviderOrdersController,
         ProviderPayoutMethodsController, ProviderRefundRequestsController}

Routes == {r \in AdminRoutes \cup OtherRoutes : r.handlers # {}}

-----------------------------------------------------------------------------
(* Guards and checks *)

\* JwtAuthGuard: modules a provider may not use before its approval.
IsBlockedProviderModule(path) ==
  \/ path[1] = "chats"
  \/ path[1] = "provider" /\ path[2] # "business-info"

\* RolesGuard and PermissionsGuard, for a member of staff who holds the permissions ps.
RoleAllows(route, role) == role \in route.who

PermissionsAllow(route, role, ps) ==
  \/ route.guard = {}
  \/ role = "SUPER_ADMIN"
  \/ role = "STAFF" /\ ToCrud(route.guard) \subseteq ToCrud(ps)

\* flattenPermissions: two spellings of one permission, in the handlers that know them.
Renamed(ps, a, b) == {<<p[1], b>> : p \in {q \in ps : q[2] = a}}
StatusSpellings(ps) ==
  Renamed(ps, "updateStatus", "status.update") \cup Renamed(ps, "status.update", "updateStatus")
PlanSpellings(ps) ==
  Renamed(ps, "updateVisibility", "visibility.update")
    \cup Renamed(ps, "visibility.update", "updateVisibility")

Spellings(route, ps) ==
  ps \cup (IF route.path[1] \in {"users", "providers", "promotional-offers", "subscription-plans"}
           THEN StatusSpellings(ps) ELSE {})
     \cup (IF route.path[1] = "subscription-plans" THEN PlanSpellings(ps) ELSE {})

HandlerAllows(route, role, ps) ==
  \/ role # "STAFF"
  \/ \E alternative \in route.checks : alternative \subseteq Spellings(route, ps)

-----------------------------------------------------------------------------
VARIABLES
  grants,   \* permissions of the staff role
  status,   \* status of the provider
  call      \* the request: where it is, its route, its caller and what the guards read

accessVars == <<grants, status, call>>

NoCall == [at |-> "idle"]

Call(at, route, role, ps) == [at |-> at, route |-> route, role |-> role, held |-> ps]

\* The guards read the caller's row and role at the door; what they read goes with the
\* request.
Arrive(route, role) ==
  /\ call.at = "idle"
  /\ role = "PROVIDER" /\ status # "APPROVED" => ~IsBlockedProviderModule(route.path)
  /\ RoleAllows(route, role)
  /\ call' = Call(IF PermissionsAllow(route, role, grants) THEN "handler" ELSE "refused",
                  route, role, IF role = "STAFF" THEN grants ELSE {})
  /\ UNCHANGED <<grants, status>>

\* The handler's own check; then it runs.
Handle ==
  /\ call.at = "handler"
  /\ call' = [call EXCEPT !.at = IF HandlerAllows(call.route, call.role, call.held)
                                 THEN "ran" ELSE "denied"]
  /\ UNCHANGED <<grants, status>>

Answer ==
  /\ call.at \in {"ran", "refused", "denied"}
  /\ call' = NoCall
  /\ UNCHANGED <<grants, status>>

UpdatePermissions ==
  /\ \E ps \in GrantChoices : grants' = ps
  /\ UNCHANGED <<status, call>>

DecideOnProvider ==
  /\ \E s \in {"PENDING", "APPROVED"} : status' = s
  /\ UNCHANGED <<grants, call>>

AccessInit == grants \in GrantChoices /\ status = "PENDING" /\ call = NoCall

AccessNext == \/ \E route \in Routes, role \in Callers : Arrive(route, role)
        \/ Handle \/ Answer \/ UpdatePermissions \/ DecideOnProvider

AccessSpec == AccessInit /\ [][AccessNext]_accessVars

-----------------------------------------------------------------------------
(* Properties *)

\* A request is where the guards and the handler can have left it.
AccessTypeOK ==
  /\ grants \in GrantChoices
  /\ status \in {"PENDING", "APPROVED"}
  /\ \/ call = NoCall
     \/ call \in [at : {"handler", "refused", "denied", "ran"}, route : Routes,
                  role : Callers, held : GrantChoices \cup {{}}]

OnlyReads(ps) == \A p \in ps : ToCrudPermission(p)[2] = "read"

\* A member of staff whose role was granted nothing but reading runs no handler of the
\* administration that writes, whether a guard or the handler asks for the permission.
ReadersDoNotWrite ==
  call.at = "ran" /\ call.role = "STAFF" /\ call.route \in AdminRoutes /\ OnlyReads(call.held)
    => ~call.route.write

\* The catalogue is enough for every guard: a role granted all of it is refused nowhere.
CatalogOpensGuards ==
  call.at = "refused" => ~(Catalog \subseteq call.held)

\* "Every granular backend action is collapsed onto one of those verbs so a single CRUD
\* grant unlocks it": a role granted the whole catalogue is denied by no handler either.
CatalogUnlocksHandlers ==
  call.at = "denied" => ~(Catalog \subseteq call.held)

=============================================================================
