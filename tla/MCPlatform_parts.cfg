SPECIFICATION Spec
CONSTANTS
    NULL = NULL
    UNUSED = UNUSED
    KEEP = KEEP
    Handlers = {h1, h2}
    Accounts = {a, b}
    Cnics = {cnic1}
    REQUIRED_DOCUMENTS = {"CNIC_FRONT"}
    REGISTRABLE_VEHICLE_DOCUMENTS = {"DRIVING_LICENSE"}
    LastFile = 2
    Users = {user1}
    SessionIds = {a, b}
    LastToken = 3
    OTP_MAX_ATTEMPTS = 2
    OTP_DAILY_LIMIT = 2
    LastCode = 3
    LastDay = 2
    LastTry = 3
    LastSend = 3
    AddressIds = {home, work, other}
    MAX_ADDRESSES_PER_USER = 2
    Customers = {customer1}
    Dishes = {"karahi", "cake"}
    KitchenOf <- MCKitchenOf
    MAX_LINES_PER_CART = 2
    usageLimit = 2
    perUserLimit = 1
    LastCart = 2
    LastLine = 2
    LastQuantity = 2
    Broadcasts = {a, b}
    LastRecipient = 3
    InboxOn = {1}
    PushOn = {1, 3}
    LastPhone = 2
    broadcastBatchSize = 2
    Kitchens = {a, b}
    LastMenu = 2
    LastSection = 2
    LastDish = 2
    Prices = {1, 2}
    Offers = {2}
    LastVariant = 3
    MAX_VARIANTS_PER_ITEM = 2
    LastOption = 2
    MAX_ADDONS_PER_GROUP = 2
    LastSelect = 2
    Categories = {a, b}
    Days = {"MONDAY", "SUNDAY"}
    MAX_RESTAURANTS_PER_OWNER = 1
    MAX_IMAGES_PER_RESTAURANT = 2
    LastListing = 2
    LastImage = 3
    LastSave = 2
    DAYS = 3
    HOURS = 4
    Codes = {"A", "B"}
    Limits = {1, 2}
    Dates = {1, 2}
    LastCoupon = 1
    LastBanner = 1
    LastRedemption = 2
    Agents = {a, b}
    LastTicket = 1
    Recipients = {"CUSTOMER", "RESTAURANT"}
    Tokens = {a, b, c}
    Anonymous = {c}
    maxPushFailures = 2
    LastEvent = 3
    LastNotice = 3
    Watchers = {"OWNER"}
    Couriers = {a, b}
    Journey <- MCJourney
    LastSocket = 2
CONSTRAINT Bound
SYMMETRY Interchangeable
CHECK_DEADLOCK FALSE
INVARIANTS SignedOutStaysOut CodesWithinLimits BasketsAreFair NobodyTwice
INVARIANTS ListingIsWhole OpensWhenSaid WatchersAreServed
PROPERTIES OnTheRoadIsVetted OneDefault MenuStands DishIsOrderable
PROPERTIES OffersHold CustomerIsHeard PushReachesItsUser
